---- MODULE Spec2Model ----
(***************************************************************************)
(* Analytics computation and caching engine of AI-EduAnalytics:            *)
(* the cache-validity protocol of SupabaseService.get_test_analysis_data,  *)
(* the analytics cache operations (get / save / invalidate), the request   *)
(* handlers of main.py that use them and the AI retry loops of the Groq    *)
(* and Gemini services.                                                    *)
(*                                                                         *)
(* Time is counted in ticks, TicksPerSecond ticks to the second.  Optional *)
(* values (Python None) are sequences of length 0 or 1.                    *)
(***************************************************************************)
EXTENDS Integers, Sequences, FiniteSets, TLC

\* ------------------------------------------------------------------ bounds
TicksPerSecond == 2
MaxTime == 4
MaxResults == 1

\* ------------------------------------------------------- program constants
\* tolerance_seconds=1.0 passed to is_timestamp_newer
tolerance_seconds == 1
\* GroqService.max_retries / GeminiService.max_retries
max_retries == 3
\* GroqService.retry_delay / GeminiService.retry_delay (seconds)
retry_delay == 2

Tests == {"t1", "t2"}
\* The test the requests and the result writes of the model are about; the other
\* test only owns a row of the cache store.
ActiveTests == {"t1"}
Procs == {"p1", "p2"}
Providers == {"groq", "gemini"}

None == <<>>
Some(v) == <<v>>
IsNone(o) == Len(o) = 0
Val(o) == o[1]

\* A field that holds a value float() rejects (a string such as "abc"): it is
\* present, and it is not a number.
NonNumeric == <<0, 0>>
IsNumeric(o) == Len(o) = 1

\* An element of a JSON list that is not an object (a number, a string): it has
\* no get(); id and points are there only so that the element has the fields
\* every element is read by.
NotAMapping == [id |-> None, points |-> None, scalar |-> TRUE]
IsMapping(x) == "scalar" \notin DOMAIN x

\* ---------------------------------------------------------------- timestamps
\* A stored timestamp: absent (null), a parseable naive ISO string, a parseable
\* timezone-aware ISO string, or a string no format of parse_timestamp accepts.
NoTs == [k |-> "none", t |-> 0]
NaiveTs(t) == [k |-> "naive", t |-> t]
AwareTs(t) == [k |-> "aware", t |-> t]
BadTs(t) == [k |-> "bad", t |-> t]
TsForms == {"naive", "aware", "bad", "none"}
MakeTs(form, t) == IF form = "none" THEN NoTs ELSE [k |-> form, t |-> t]

\* Python truthiness of a timestamp field: None is falsy, any non-empty string truthy.
Truthy(ts) == ts.k # "none"

\* parse_timestamp: None for None and for an unparsable string, else the datetime.
parse_timestamp(ts) == IF ts.k \in {"naive", "aware"} THEN Some(ts) ELSE None

ToleranceTicks == tolerance_seconds * TicksPerSecond

\* compare_timestamps with the tolerance excluded: a difference of exactly the
\* tolerance already counts as newer.
compare_timestamps_exclusive(ts1, ts2, tol) ==
    LET dt1 == parse_timestamp(ts1)
        dt2 == parse_timestamp(ts2)
    IN  IF IsNone(dt1) \/ IsNone(dt2) THEN "none"
        ELSE IF Val(dt1).k # Val(dt2).k THEN "raise"
        ELSE LET diff == Val(dt1).t - Val(dt2).t
                 absdiff == IF diff < 0 THEN 0 - diff ELSE diff
             IN  IF absdiff < tol THEN "eq"
                 ELSE IF diff > 0 THEN "gt" ELSE "lt"

\* compare_timestamps: "none" when a timestamp does not parse, "raise" when the
\* subtraction of an aware and a naive datetime raises TypeError, else the
\* comparison within the tolerance.
compare_timestamps(ts1, ts2, tol) ==
    LET dt1 == parse_timestamp(ts1)
        dt2 == parse_timestamp(ts2)
    IN  IF IsNone(dt1) \/ IsNone(dt2) THEN "none"
        ELSE IF Val(dt1).k # Val(dt2).k THEN "raise"
        ELSE LET diff == Val(dt1).t - Val(dt2).t
                 absdiff == IF diff < 0 THEN 0 - diff ELSE diff
             IN  IF absdiff <= tol THEN "eq"
                 ELSE IF diff > 0 THEN "gt" ELSE "lt"

\* is_timestamp_newer: "raise" propagates, otherwise comparison == 1.
is_timestamp_newer(ts1, ts2, tol) ==
    LET c == compare_timestamps(ts1, ts2, tol)
    IN  IF c = "raise" THEN "raise" ELSE IF c = "gt" THEN "true" ELSE "false"

\* ------------------------------------------------------------ records store
\* A question of a test: optional id, optional point value.
\* A sub-result of a result: optional question id, optional points earned.
\* Ids are records [s, n]: s = "id" is the n-th real question id, and
\* "q", "num", "question", "question_" are the strings q{n}, {n}, question{n},
\* question_{n}.
Key(s, n) == [s |-> s, n |-> n]

TestDef == [questions |-> << [id |-> None, points |-> Some(1)] >>,
            total_questions |-> 1]

Students == {"s1", "s2"}

\* The result rows a client can write (created_at is stamped by the store).
WeakResult == [points |-> Some(0), grade |-> Some(200), participated |-> TRUE,
               cancelled |-> FALSE,
               question_results |-> << [id |-> None, points |-> Some(0)] >>]
StrongResult == [points |-> Some(1), grade |-> Some(600), participated |-> TRUE,
                 cancelled |-> FALSE,
                 question_results |-> << [id |-> None, points |-> Some(1)] >>]
ResultInputs == {WeakResult, StrongResult}

Stamped(r, ts) ==
    [points |-> r.points, grade |-> r.grade, participated |-> r.participated,
     cancelled |-> r.cancelled, question_results |-> r.question_results,
     created_at |-> ts]
Content(row) ==
    [points |-> row.points, grade |-> row.grade, participated |-> row.participated,
     cancelled |-> row.cancelled, question_results |-> row.question_results]

RECURSIVE SeqSum(_)
SeqSum(s) == IF Len(s) = 0 THEN 0 ELSE Head(s) + SeqSum(Tail(s))


\* Python round() of the non-negative rational num/den: half to even.
RoundHalfEven(num, den) ==
    LET q == num \div den
        r == num % den
    IN  IF 2 * r < den THEN q
        ELSE IF 2 * r > den THEN q + 1
        ELSE IF q % 2 = 0 THEN q ELSE q + 1

\* ------------------------------------------------- _calculate_question_success
Aliases(i) == {Key("q", i), Key("num", i), Key("question", i), Key("question_", i)}

\* The integer id 0, which the truth tests on an id take for a missing id.
IntZero == Key("int", 0)

\* The id the matching works with: get("questionId") or get("question_id") or
\* get("id"), tested by "if qr_id:".
IdOf(m) == IF IsNone(m.id) \/ m.id = Some(IntZero) THEN None ELSE m.id

possible_ids(question_id, i) ==
    (IF IsNone(question_id) \/ question_id = Some(IntZero) THEN {}
     ELSE {Val(question_id)}) \cup Aliases(i)

\* max_points of ordinal i: the question's points, 1 when absent, 0 or negative.
QuestionMaxPoints(questions, i) ==
    IF i <= Len(questions)
    THEN LET mp == questions[i].points
         IN  IF IsNone(mp) \/ ~IsNumeric(mp) THEN 1
             ELSE IF Val(mp) <= 0 THEN 1 ELSE Val(mp)
    ELSE 1

\* The sub-result of one result counted for ordinal i: the first one whose id is
\* an accepted key, else the one at position i-1 when it carries no id (or an
\* accepted id); None when there is none.
FindQuestionResult(question_results, questions, i) ==
    LET qid == IF i <= Len(questions) THEN questions[i].id ELSE None
        pids == possible_ids(qid, i)
        hits == {j \in 1..Len(question_results) :
                   /\ ~IsNone(IdOf(question_results[j]))
                   /\ Val(IdOf(question_results[j])) \in pids}
    IN  IF hits # {}
        THEN Some(question_results[CHOOSE j \in hits : \A k \in hits : j <= k])
        ELSE IF i <= Len(question_results) /\ i <= Len(questions)
        THEN LET potential == question_results[i]
             IN  IF IsNone(IdOf(potential)) THEN Some(potential)
                 ELSE IF Val(IdOf(potential)) \in pids THEN Some(potential)
                 ELSE None
        ELSE None

PointsEarned(qr) ==
    IF IsNone(qr.points) \/ ~IsNumeric(qr.points) THEN 0
    ELSE IF Val(qr.points) < 0 THEN 0 ELSE Val(qr.points)

IsParticipated(r) == r.participated /\ ~r.cancelled

\* Variant: the rate is not capped at 100.
SuccessRateUncapped(results, questions, i) ==
    LET valid == SelectSeq(results, IsParticipated)
        found == [j \in 1..Len(valid) |->
                    FindQuestionResult(valid[j].question_results, questions, i)]
        earned == SeqSum([j \in 1..Len(valid) |->
                    IF IsNone(found[j]) THEN 0 ELSE PointsEarned(Val(found[j]))])
        max_points == QuestionMaxPoints(questions, i)
        total_students == Len(valid)
    IN  IF max_points > 0 /\ total_students > 0
        THEN LET rate == RoundHalfEven(100 * earned, max_points * total_students)
             IN  rate
        ELSE 0

\* Variant: the denominator counts only the results that have a sub-result
\* for the question.
SuccessRatePerAnswer(results, questions, i) ==
    LET valid == SelectSeq(results, IsParticipated)
        found == [j \in 1..Len(valid) |->
                    FindQuestionResult(valid[j].question_results, questions, i)]
        earned == SeqSum([j \in 1..Len(valid) |->
                    IF IsNone(found[j]) THEN 0 ELSE PointsEarned(Val(found[j]))])
        max_points == QuestionMaxPoints(questions, i)
        total_students == Cardinality({j \in 1..Len(valid) : ~IsNone(found[j])})
    IN  IF max_points > 0 /\ total_students > 0
        THEN LET rate == RoundHalfEven(100 * earned, max_points * total_students)
             IN  IF rate > 100 THEN 100 ELSE rate
        ELSE 0

\* Success rate (a percentage) of ordinal i.
SuccessRate(results, questions, i) ==
    LET valid == SelectSeq(results, IsParticipated)
        found == [j \in 1..Len(valid) |->
                    FindQuestionResult(valid[j].question_results, questions, i)]
        earned == SeqSum([j \in 1..Len(valid) |->
                    IF IsNone(found[j]) THEN 0 ELSE PointsEarned(Val(found[j]))])
        max_points == QuestionMaxPoints(questions, i)
        total_students == Len(valid)
    IN  IF max_points > 0 /\ total_students > 0
        THEN LET rate == RoundHalfEven(100 * earned, max_points * total_students)
             IN  IF rate > 100 THEN 100 ELSE rate
        ELSE 0

\* The map q{i}_success -> "{rate}%", as a function from the ordinal to the rate.
calculate_question_success(results, test) ==
    LET questions == test.questions
        total_questions == IF Len(questions) > 0 THEN Len(questions)
                           ELSE test.total_questions
    IN  IF Len(questions) = 0 THEN << >>
        ELSE [i \in 1..total_questions |-> SuccessRate(results, questions, i)]

\* ------------------------------------------------------ _calculate_statistics
IntKey(g) == [t |-> "int", g |-> g]
StrKey(g) == [t |-> "str", g |-> g]
Grades == {2, 3, 4, 5, 6}

\* Variant: a grade below 2.00 is counted in bucket 2.
GradeBucketNoFloor(grade) ==
    IF grade >= 550 THEN 6
    ELSE IF grade >= 450 THEN 5
    ELSE IF grade >= 350 THEN 4
    ELSE IF grade >= 250 THEN 3
    ELSE 2

\* Bucket of a grade given in hundredths; 0 when below 2.00 (no bucket).
GradeBucket(grade) ==
    IF grade >= 550 THEN 6
    ELSE IF grade >= 450 THEN 5
    ELSE IF grade >= 350 THEN 4
    ELSE IF grade >= 250 THEN 3
    ELSE IF grade >= 200 THEN 2
    ELSE 0

HasPoints(r) == ~IsNone(r.points)
IsValidParticipated(r) == HasPoints(r) /\ IsParticipated(r)

\* Variant: every counted result outside bucket 2 passes.
pass_count_all_participated(dist, participated_count) ==
    participated_count - dist[IntKey(2)]

\* pass_count = sum(grade_distribution.values()) - grade_distribution[2]
pass_count(dist, participated_count) ==
    dist[IntKey(3)] + dist[IntKey(4)] + dist[IntKey(5)] + dist[IntKey(6)]

\* round((count / participated_count) * 100, 1), in tenths of a percent.
Percentage(count, participated_count) ==
    IF participated_count > 0
    THEN RoundHalfEven(1000 * count, participated_count)
    ELSE 0

\* The statistics map (keys other than q{i}_success) of _calculate_statistics;
\* grade_distribution and grade_percentages are keyed by the integers 6, 5,
\* 4, 3, 2; the percentages and the pass rate are in tenths of a percent.
calculate_statistics(students, results, test) ==
    LET vp == SelectSeq(results, IsValidParticipated)
        InBucket(g) == {j \in 1..Len(vp) :
                          /\ ~IsNone(vp[j].grade) /\ IsNumeric(vp[j].grade)
                          /\ GradeBucket(Val(vp[j].grade)) = g}
        dist == [k \in {IntKey(g) : g \in Grades} |-> Cardinality(InBucket(k.g))]
    IN  [total_students |-> Cardinality(students),
         participated_count |-> Len(vp),
         grade_distribution |-> dist,
         grade_percentages |->
             [k \in {IntKey(g) : g \in Grades} |-> Percentage(dist[k], Len(vp))],
         good_grades_count |-> dist[IntKey(5)] + dist[IntKey(6)],
         pass_rate |-> Percentage(pass_count(dist, Len(vp)), Len(vp))]

\* ------------------------------------------------------------- cache store
\* JSON object keys are strings: an integer key k is stored, and read back, as
\* the string "k".
JsonObject(m) == [k \in {StrKey(x.g) : x \in DOMAIN m} |->
                    IF IntKey(k.g) \in DOMAIN m THEN m[IntKey(k.g)] ELSE m[k]]

\* The statistics map as the store holds it (and get_analytics returns it).
JsonStatistics(s) ==
    [s EXCEPT !.grade_distribution = JsonObject(@),
              !.grade_percentages = JsonObject(@)]

\* A row of test_analytics.
Row(statistics, rates, ai, calculated_at, updated_at) ==
    [statistics |-> statistics, question_success_rates |-> rates,
     ai_analysis |-> ai, calculated_at |-> calculated_at, updated_at |-> updated_at]

\* Python truthiness of an optional AI analysis.
HasAI(row) == ~IsNone(row.ai_analysis)

\* Variant: an update writes the statistics and leaves the rates of the row
\* that is there.
UpsertKeepsRates(old, statistics, rates, ai, ts) ==
    Some(Row(JsonStatistics(statistics),
             IF IsNone(old) THEN rates ELSE Val(old).question_success_rates,
             IF ~IsNone(ai) THEN ai ELSE IF IsNone(old) THEN None ELSE Val(old).ai_analysis,
             IF IsNone(old) THEN NoTs ELSE Val(old).calculated_at,
             ts))

\* upsert(analytics_data): the columns given replace the row's, the others stay
\* (a new row gets nulls there).
Upsert(old, statistics, rates, ai, ts) ==
    Some(Row(JsonStatistics(statistics), rates,
             IF ~IsNone(ai) THEN ai ELSE IF IsNone(old) THEN None ELSE Val(old).ai_analysis,
             IF IsNone(old) THEN NoTs ELSE Val(old).calculated_at,
             ts))

\* get_analytics: the row, or None when there is none or the store fails.
get_analytics(store, test_id, store_ok) ==
    IF store_ok THEN store[test_id] ELSE None

\* save_analytics: the store after the call and whether it returned True.
save_analytics(store, test_id, statistics, rates, ai, clock, store_ok) ==
    IF store_ok
    THEN [store |-> [store EXCEPT ![test_id] =
                        Upsert(store[test_id], statistics, rates, ai, NaiveTs(clock))],
          ok |-> TRUE]
    ELSE [store |-> store, ok |-> FALSE]

\* An invalidation that deletes without the test_id filter.
invalidate_all(store, test_id, store_ok) ==
    IF store_ok
    THEN [store |-> [t \in DOMAIN store |-> None], ok |-> TRUE]
    ELSE [store |-> store, ok |-> FALSE]

\* invalidate_analytics: the store after the call and whether it returned True.
invalidate_analytics(store, test_id, store_ok) ==
    IF store_ok
    THEN [store |-> [store EXCEPT ![test_id] = None], ok |-> TRUE]
    ELSE [store |-> store, ok |-> FALSE]

\* ------------------------------------------------------------------- state
VARIABLES
    now,          \* the clock, in ticks
    results,      \* results store: test id -> sequence of result rows
    cache,        \* test_analytics: test id -> None or Some(row)
    ai_provider,  \* settings.ai_provider
    procs,        \* the request each worker is serving, and where it is
    lastSaved,    \* per test: what the last successful save_analytics was given
    dirty         \* per test: a result was added or updated more than the
                  \* tolerance after the timestamp of the cache row

vars == <<now, results, cache, ai_provider, procs, lastSaved, dirty>>

\* A row written before updated_at was stamped: only calculated_at is set.
LegacyRow == Row(JsonStatistics(calculate_statistics(Students, << >>, TestDef)),
                 calculate_question_success(<< >>, TestDef), None, NaiveTs(0), NoTs)

\* A row that carries neither timestamp (both columns are nullable).
BareRow == Row(JsonStatistics(calculate_statistics(Students, << >>, TestDef)),
               calculate_question_success(<< >>, TestDef), None, NoTs, NoTs)

IdleProc == [pc |-> "idle", op |-> "none", test |-> "t1", force |-> FALSE,
             cached |-> None, check |-> "none", cts |-> NoTs, lts |-> NoTs,
             get_failed |-> FALSE, save_failed |-> FALSE, invalidated |-> FALSE,
             invalidate_failed |-> FALSE,
             computed |-> None, test_data |-> None, modified |-> FALSE,
             absent |-> FALSE, cached_analytics |-> None, ai_in_cache |-> FALSE,
             reused |-> FALSE, ai_saved |-> FALSE, attempt |-> 0, trace |-> << >>,
             ai_analysis |-> None, ai_error |-> None,
             ai_text |-> None, sections |-> None,
             args |-> None, returned |-> None,
             error |-> "none", status |-> 0]

Init ==
    /\ now = 0
    /\ results = [t \in Tests |-> << >>]
    /\ cache \in {c \in [Tests -> {None, Some(LegacyRow), Some(BareRow)}] :
                     \A t \in Tests \ ActiveTests : c[t] = Some(LegacyRow)}
    /\ ai_provider = "groq"
    /\ procs = [p \in Procs |-> IdleProc]
    /\ lastSaved = [t \in Tests |-> None]
    /\ dirty = [t \in Tests |-> FALSE]

\* Whether a result written now is later, by more than the tolerance, than the
\* timestamp of the cache row of test t.
LaterThanCache(t) ==
    /\ ~IsNone(cache[t])
    /\ LET ts == IF Truthy(Val(cache[t]).updated_at) THEN Val(cache[t]).updated_at
                 ELSE Val(cache[t]).calculated_at
       IN  ts.k = "naive" /\ now - ts.t > ToleranceTicks

\* ------------------------------------------------------------- environment
Tick ==
    /\ now < MaxTime
    /\ now' = now + 1
    /\ UNCHANGED <<results, cache, ai_provider, procs, lastSaved, dirty>>

\* A client inserts a result row; the store stamps created_at.
InsertResult(t, r, form) ==
    /\ Len(results[t]) < MaxResults
    /\ results' = [results EXCEPT ![t] = Append(@, Stamped(r, MakeTs(form, now)))]
    /\ dirty' = [dirty EXCEPT ![t] = @ \/ LaterThanCache(t)]
    /\ UNCHANGED <<now, cache, ai_provider, procs, lastSaved>>

\* A client updates a result row; created_at stays.
UpdateResult(t, i, r) ==
    /\ i \in 1..Len(results[t])
    /\ Content(results[t][i]) # r
    /\ results' = [results EXCEPT ![t][i] = Stamped(r, @.created_at)]
    /\ dirty' = [dirty EXCEPT ![t] = @ \/ LaterThanCache(t)]
    /\ UNCHANGED <<now, cache, ai_provider, procs, lastSaved>>

\* ----------------------------------------------------- get_test_analysis_data
\* .order("created_at", desc=True).limit(1): the rows the query can return
\* (nulls sort first in descending order; ties are in any order).
LatestRows(rs) ==
    LET nulls == {i \in 1..Len(rs) : rs[i].created_at.k = "none"}
        tops == {i \in 1..Len(rs) : \A j \in 1..Len(rs) :
                    rs[j].created_at.t <= rs[i].created_at.t}
    IN  IF nulls # {} THEN nulls ELSE tops

cache_timestamp(row) ==
    IF Truthy(row.updated_at) THEN row.updated_at ELSE row.calculated_at

\* The outcome of the validation of a cache hit: "stale" invalidates, every
\* other outcome uses the cache.  latest is None when the query returned no row.
FreshnessCheck(row, query_ok, latest) ==
    IF ~Truthy(cache_timestamp(row)) THEN "no_cache_ts"
    ELSE IF ~query_ok THEN "query_error"
    ELSE IF IsNone(latest) THEN "no_results"
    ELSE IF ~Truthy(Val(latest).created_at) THEN "no_result_ts"
    ELSE LET newer == is_timestamp_newer(Val(latest).created_at,
                                         cache_timestamp(row), ToleranceTicks)
         IN  IF newer = "raise" THEN "compare_error"
             ELSE IF newer = "true" THEN "stale"
             ELSE "fresh"

\* A validation that treats every outcome but a confirmed fresh cache as stale.
UsesCacheOnlyWhenFresh(check) == check \in {"fresh", "no_results"}

UsesCache(check) == check # "stale"

Set(p, rec) == procs' = [procs EXCEPT ![p] = rec]
Me(p) == procs[p]

\* cached_analytics = self.get_analytics(test_id)
GtadGet(p) ==
    /\ Me(p).pc = "gtad_get"
    /\ \E store_ok \in BOOLEAN :
         LET got == get_analytics(cache, Me(p).test, store_ok)
         IN  Set(p, [Me(p) EXCEPT !.cached = got,
                                  !.get_failed = ~store_ok,
                                  !.modified = dirty[Me(p).test],
                                  !.pc = IF IsNone(got) THEN "gtad_miss"
                                         ELSE "gtad_check"])
    /\ UNCHANGED <<now, results, cache, ai_provider, lastSaved, dirty>>

\* The freshness check of a cache hit (lines 92-140).
GtadCheck(p) ==
    /\ Me(p).pc = "gtad_check"
    /\ \E query_ok \in BOOLEAN :
       \E latest \in (IF Len(results[Me(p).test]) = 0 THEN {None}
                      ELSE {Some(results[Me(p).test][i]) :
                              i \in LatestRows(results[Me(p).test])}) :
         LET row == Val(Me(p).cached)
             check == FreshnessCheck(row, query_ok, latest)
         IN  Set(p, [Me(p) EXCEPT
                 !.check = check,
                 !.cts = cache_timestamp(row),
                 !.lts = IF check \in {"no_cache_ts", "query_error", "no_results"}
                         THEN NoTs ELSE Val(latest).created_at,
                 !.pc = IF UsesCache(check) THEN "gtad_hit" ELSE "gtad_invalidate"])
    /\ UNCHANGED <<now, results, cache, ai_provider, lastSaved, dirty>>

\* Variant: the stale record is dropped from the request only, not deleted.
GtadInvalidateSkipsDelete(p) ==
    /\ Me(p).pc = "gtad_invalidate"
    /\ Set(p, [Me(p) EXCEPT !.cached = None, !.invalidated = TRUE, !.pc = "gtad_miss"])
    /\ UNCHANGED <<now, results, cache, ai_provider, lastSaved, dirty>>

\* self.invalidate_analytics(test_id); cached_analytics = None
GtadInvalidate(p) ==
    /\ Me(p).pc = "gtad_invalidate"
    /\ \E store_ok \in BOOLEAN :
         LET r == invalidate_analytics(cache, Me(p).test, store_ok)
         IN  /\ cache' = r.store
             /\ lastSaved' = IF r.ok THEN [lastSaved EXCEPT ![Me(p).test] = None]
                             ELSE lastSaved
             /\ dirty' = IF r.ok THEN [dirty EXCEPT ![Me(p).test] = FALSE] ELSE dirty
             /\ Set(p, [Me(p) EXCEPT !.cached = None, !.invalidated = TRUE,
                                     !.invalidate_failed = ~r.ok, !.pc = "gtad_miss"])
    /\ UNCHANGED <<now, results, ai_provider>>

\* Lines 331-342: every q{i}_success of 1..total_questions present, "0%" if missing.
FillWith(rates, n, zero) ==
    [i \in (DOMAIN rates) \cup (1..n) |-> IF i \in DOMAIN rates THEN rates[i] ELSE zero]

\* With the rates held as percentages, "0%" is 0.
FillRates(rates, n) == FillWith(rates, n, 0)

final_total_questions(test) ==
    IF Len(test.questions) > 0 THEN Len(test.questions) ELSE test.total_questions

TestData(statistics, rates, from_cache) ==
    [statistics |-> statistics, rates |-> rates, from_cache |-> from_cache]

\* Variant: the hit branch writes the statistics it read back to the store.
GtadHitResaves(p) ==
    /\ Me(p).pc = "gtad_hit"
    /\ LET row == Val(Me(p).cached)
           r == save_analytics(cache, Me(p).test, row.statistics,
                               row.question_success_rates, None, now, TRUE)
       IN  /\ cache' = r.store
           /\ Set(p, [Me(p) EXCEPT
                  !.test_data = Some(TestData(row.statistics,
                       FillRates(row.question_success_rates,
                                 final_total_questions(TestDef)), TRUE)),
                  !.pc = "gtad_ret"])
    /\ UNCHANGED <<now, results, ai_provider, lastSaved, dirty>>

\* The cache-hit branch (lines 142-158): test and class are still fetched.
GtadHit(p) ==
    /\ Me(p).pc = "gtad_hit"
    /\ \E records_ok \in BOOLEAN :
         IF records_ok
         THEN LET row == Val(Me(p).cached)
              IN  Set(p, [Me(p) EXCEPT
                     !.test_data = Some(TestData(row.statistics,
                          FillRates(row.question_success_rates,
                                    final_total_questions(TestDef)), TRUE)),
                     !.pc = "gtad_ret"])
         ELSE Set(p, [Me(p) EXCEPT !.error = "records", !.status = 500, !.pc = "done"])
    /\ UNCHANGED <<now, results, cache, ai_provider, lastSaved, dirty>>

\* The miss branch (lines 159-189): fetch test, class, students and results,
\* compute the statistics.
GtadMiss(p) ==
    /\ Me(p).pc = "gtad_miss"
    /\ \E records_ok \in BOOLEAN :
         IF records_ok
         THEN Set(p, [Me(p) EXCEPT
                 !.computed = Some(TestData(
                      calculate_statistics(Students, results[Me(p).test], TestDef),
                      calculate_question_success(results[Me(p).test], TestDef), FALSE)),
                 !.pc = "gtad_save"])
         ELSE Set(p, [Me(p) EXCEPT !.error = "records", !.status = 500, !.pc = "done"])
    /\ UNCHANGED <<now, results, cache, ai_provider, lastSaved, dirty>>

\* A save whose failure propagates out of get_test_analysis_data.
GtadSaveRaises(p) ==
    /\ Me(p).pc = "gtad_save"
    /\ \E store_ok \in BOOLEAN :
         LET td == Val(Me(p).computed)
             r == save_analytics(cache, Me(p).test, td.statistics, td.rates, None,
                                 now, store_ok)
         IN  /\ cache' = r.store
             /\ lastSaved' = IF r.ok
                             THEN [lastSaved EXCEPT ![Me(p).test] =
                                     Some([statistics |-> td.statistics, rates |-> td.rates])]
                             ELSE lastSaved
             /\ dirty' = IF r.ok THEN [dirty EXCEPT ![Me(p).test] = FALSE] ELSE dirty
             /\ Set(p, IF r.ok
                       THEN [Me(p) EXCEPT !.test_data = Me(p).computed, !.pc = "gtad_ret"]
                       ELSE [Me(p) EXCEPT !.save_failed = TRUE, !.error = "cache",
                                          !.status = 500, !.pc = "done"])
    /\ UNCHANGED <<now, results, ai_provider>>

\* Lines 191-196: self.save_analytics(...); a failure is logged only.
GtadSave(p) ==
    /\ Me(p).pc = "gtad_save"
    /\ \E store_ok \in BOOLEAN :
         LET td == Val(Me(p).computed)
             r == save_analytics(cache, Me(p).test, td.statistics, td.rates, None,
                                 now, store_ok)
         IN  /\ cache' = r.store
             /\ lastSaved' = IF r.ok
                             THEN [lastSaved EXCEPT ![Me(p).test] =
                                     Some([statistics |-> td.statistics, rates |-> td.rates])]
                             ELSE lastSaved
             /\ dirty' = IF r.ok THEN [dirty EXCEPT ![Me(p).test] = FALSE] ELSE dirty
             /\ Set(p, [Me(p) EXCEPT !.save_failed = ~r.ok,
                                     !.test_data = Me(p).computed,
                                     !.pc = "gtad_ret"])
    /\ UNCHANGED <<now, results, ai_provider>>

\* ------------------------------------------- recalculate_and_save_analytics
\* if force_recalculate: self.invalidate_analytics(test_id)
RecalcInvalidate(p) ==
    /\ Me(p).pc = "rc_invalidate"
    /\ \E store_ok \in BOOLEAN :
         LET r == invalidate_analytics(cache, Me(p).test, store_ok)
         IN  /\ cache' = r.store
             /\ lastSaved' = IF r.ok THEN [lastSaved EXCEPT ![Me(p).test] = None]
                             ELSE lastSaved
             /\ dirty' = IF r.ok THEN [dirty EXCEPT ![Me(p).test] = FALSE] ELSE dirty
    /\ Set(p, [Me(p) EXCEPT !.pc = "gtad_get"])
    /\ UNCHANGED <<now, results, ai_provider>>

\* Lines 1249-1266: the statistics of test_data are saved once more; the
\* endpoint answers 200 whatever save_analytics returned.
RecalcSave(p) ==
    /\ Me(p).pc = "gtad_ret"
    /\ Me(p).op = "recalc"
    /\ \E store_ok \in BOOLEAN :
         LET td == Val(Me(p).test_data)
             r == save_analytics(cache, Me(p).test, td.statistics, td.rates, None,
                                 now, store_ok)
         IN  /\ cache' = r.store
             /\ lastSaved' = IF r.ok
                             THEN [lastSaved EXCEPT ![Me(p).test] =
                                     Some([statistics |-> td.statistics, rates |-> td.rates])]
                             ELSE lastSaved
             /\ dirty' = IF r.ok THEN [dirty EXCEPT ![Me(p).test] = FALSE] ELSE dirty
    /\ Set(p, [Me(p) EXCEPT !.status = 200, !.pc = "done"])
    /\ UNCHANGED <<now, results, ai_provider>>

\* --------------------- invalidate_analytics_cache / invalidate_cache_by_result
InvalidateEndpoint(p, store_ok) ==
    /\ Me(p).pc = "inv"
    /\   LET r == invalidate_analytics(cache, Me(p).test, store_ok)
         IN  /\ cache' = r.store
             /\ lastSaved' = IF r.ok THEN [lastSaved EXCEPT ![Me(p).test] = None]
                             ELSE lastSaved
             /\ dirty' = IF r.ok THEN [dirty EXCEPT ![Me(p).test] = FALSE] ELSE dirty
             /\ Set(p, [Me(p) EXCEPT !.status = IF r.ok THEN 200 ELSE 500,
                                     !.error = IF r.ok THEN "none" ELSE "invalidate",
                                     !.absent = IsNone(cache[Me(p).test]),
                                     !.pc = "done"])
    /\ UNCHANGED <<now, results, ai_provider>>

\* ------------------------------------------------------------------ requests
StartRecalculate(p, t, force) ==
    /\ Me(p).pc = "idle"
    /\ Set(p, [IdleProc EXCEPT !.op = "recalc", !.test = t, !.force = force,
                               !.pc = IF force THEN "rc_invalidate" ELSE "gtad_get"])
    /\ UNCHANGED <<now, results, cache, ai_provider, lastSaved, dirty>>

StartInvalidate(p, t) ==
    /\ Me(p).pc = "idle"
    /\ Set(p, [IdleProc EXCEPT !.op = "invalidate", !.test = t, !.pc = "inv"])
    /\ UNCHANGED <<now, results, cache, ai_provider, lastSaved, dirty>>

\* The response is sent; the worker is free again.
Respond(p) ==
    /\ Me(p).pc = "done"
    /\ Set(p, IdleProc)
    /\ UNCHANGED <<now, results, cache, ai_provider, lastSaved, dirty>>

Environment ==
    \/ Tick
    \/ \E t \in ActiveTests, r \in ResultInputs, form \in TsForms : InsertResult(t, r, form)
    \/ \E t \in ActiveTests, i \in 1..MaxResults, r \in ResultInputs : UpdateResult(t, i, r)

GetTestAnalysisData(p) ==
    \/ GtadGet(p)
    \/ GtadCheck(p)
    \/ GtadInvalidate(p)
    \/ GtadHit(p)
    \/ GtadMiss(p)
    \/ GtadSave(p)

\* The cache protocol: one worker serving recalculate and invalidate requests.
CacheWorker(p) ==
    \/ \E t \in ActiveTests, force \in BOOLEAN : StartRecalculate(p, t, force)
    \/ \E t \in ActiveTests : StartInvalidate(p, t)
    \/ RecalcInvalidate(p)
    \/ GetTestAnalysisData(p)
    \/ RecalcSave(p)
    \/ \E store_ok \in BOOLEAN : InvalidateEndpoint(p, store_ok)
    \/ Respond(p)

Next == Environment \/ CacheWorker("p1")

Spec == Init /\ [][Next]_vars

\* ============================================================ AI analysis
\* What one call of the AI backend can do: answer, fail, or fail with a message
\* that names a rate limit or quota, with or without a "retry in Ns" hint.
Hints == {None, Some(3), Some(7)}
BackendOutcomes ==
    {[kind |-> "ok", hint |-> None], [kind |-> "generic", hint |-> None]}
      \cup {[kind |-> "rate_limit", hint |-> h] : h \in Hints}

\* GroqAPIError(message, is_rate_limit=False, retry_after=None)
GroqAPIError(is_rate_limit, retry_after) ==
    [provider |-> "groq", has_flag |-> TRUE, is_rate_limit |-> is_rate_limit,
     retry_after |-> retry_after]

\* GeminiAPIError: a bare Exception subclass, no is_rate_limit attribute.
GeminiAPIError ==
    [provider |-> "gemini", has_flag |-> FALSE, is_rate_limit |-> FALSE,
     retry_after |-> None]

\* retry_delay of a rate-limited Groq failure: max(int(hint), 5), or
\* self.retry_delay when the message carries no hint.
groq_retry_delay(outcome) ==
    IF IsNone(outcome.hint) THEN retry_delay
    ELSE IF Val(outcome.hint) > 5 THEN Val(outcome.hint) ELSE 5

Step(ret, sleep, error) == [ret |-> ret, sleep |-> sleep, error |-> error]

\* A Groq loop that gives up on the first rate-limited failure.
groq_attempt_no_rate_limit_retry(attempt, outcome) ==
    IF outcome.kind = "ok" THEN Step("return", None, None)
    ELSE IF outcome.kind = "rate_limit"
    THEN Step("raise", None, Some(GroqAPIError(TRUE, Some(groq_retry_delay(outcome)))))
    ELSE IF attempt < max_retries THEN Step("continue", Some(retry_delay), None)
    ELSE Step("raise", None, Some(GroqAPIError(FALSE, None)))

\* One iteration of the loop of _call_groq_with_retry.
groq_attempt(attempt, outcome) ==
    IF outcome.kind = "ok" THEN Step("return", None, None)
    ELSE IF outcome.kind = "rate_limit"
    THEN IF attempt < max_retries
         THEN Step("continue", Some(groq_retry_delay(outcome)), None)
         ELSE Step("raise", None,
                   Some(GroqAPIError(TRUE, Some(groq_retry_delay(outcome)))))
    ELSE IF attempt < max_retries THEN Step("continue", Some(retry_delay), None)
    ELSE Step("raise", None, Some(GroqAPIError(FALSE, None)))

\* A Gemini loop that sleeps after every failed attempt, the last included.
gemini_attempt_sleep_always(attempt, outcome) ==
    IF outcome.kind = "ok" THEN Step("return", None, None)
    ELSE IF attempt < max_retries THEN Step("continue", Some(retry_delay), None)
    ELSE Step("raise", Some(retry_delay), Some(GeminiAPIError))

\* One iteration of the loop of _call_gemini_with_retry: every failure is generic.
gemini_attempt(attempt, outcome) ==
    IF outcome.kind = "ok" THEN Step("return", None, None)
    ELSE IF attempt < max_retries THEN Step("continue", Some(retry_delay), None)
    ELSE Step("raise", None, Some(GeminiAPIError))

CallEvent(outcome) ==
    [e |-> "call", kind |-> outcome.kind,
     d |-> IF IsNone(outcome.hint) THEN 0 ELSE Val(outcome.hint)]
SleepEvent(d) == [e |-> "sleep", kind |-> "none", d |-> d]

\* The analysis the backend writes, and one that was cached before.
FreshAnalysis == "A1"
CachedAnalysis == "A0"

\* ai_service.generate_analysis(test_data): one attempt of the retry loop.
AICall(p, outcome) ==
    /\ Me(p).pc = "ai_call"
    /\ LET step == IF ai_provider = "groq" THEN groq_attempt(Me(p).attempt, outcome)
                   ELSE gemini_attempt(Me(p).attempt, outcome)
           events == <<CallEvent(outcome)>> \o
                     (IF IsNone(step.sleep) THEN << >>
                      ELSE <<SleepEvent(Val(step.sleep))>>)
       IN  Set(p, [Me(p) EXCEPT
               !.trace = @ \o events,
               !.attempt = IF step.ret = "continue" THEN @ + 1 ELSE @,
               !.ai_analysis = IF step.ret = "return" THEN Some(FreshAnalysis) ELSE @,
               !.ai_error = step.error,
               !.pc = IF step.ret = "continue" THEN "ai_call"
                      ELSE IF step.ret = "raise" THEN "ai_failed"
                      ELSE IF Me(p).op = "report" THEN "rp_save" ELSE "an_get"])
    /\ UNCHANGED <<now, results, cache, ai_provider, lastSaved, dirty>>

\* except (GeminiAPIError, GroqAPIError) as e: 429 if e.is_rate_limit else 500.
\* Reading is_rate_limit of an error without the attribute raises
\* AttributeError, which the outer except Exception turns into a 500.
HandleAIError(p) ==
    /\ Me(p).pc = "ai_failed"
    /\ LET e == Val(Me(p).ai_error)
       IN  Set(p, [Me(p) EXCEPT
               !.error = IF e.has_flag THEN "ai" ELSE "unexpected",
               !.status = IF e.has_flag /\ e.is_rate_limit THEN 429 ELSE 500,
               !.pc = "done"])
    /\ UNCHANGED <<now, results, cache, ai_provider, lastSaved, dirty>>

\* The statistics and rates saved with a fresh AI analysis: those of the cache
\* record the handler read, else those of test_data.
SavedWithAI(m) ==
    IF ~IsNone(m.cached_analytics)
    THEN [statistics |-> Val(m.cached_analytics).statistics,
          rates |-> Val(m.cached_analytics).question_success_rates]
    ELSE [statistics |-> Val(m.test_data).statistics,
          rates |-> Val(m.test_data).rates]

\* supabase_service.save_analytics(test_id, statistics, rates, ai_analysis=...)
SaveWithAI(p, store_ok) ==
    LET sv == SavedWithAI(Me(p))
        r == save_analytics(cache, Me(p).test, sv.statistics, sv.rates,
                            Me(p).ai_analysis, now, store_ok)
    IN  /\ cache' = r.store
        /\ lastSaved' = IF r.ok THEN [lastSaved EXCEPT ![Me(p).test] = Some(sv)]
                        ELSE lastSaved
        /\ dirty' = IF r.ok THEN [dirty EXCEPT ![Me(p).test] = FALSE] ELSE dirty

\* ---------------------------------------------------------- generate_report
\* A handler that asks the backend whatever the cache holds.
ReportGetAlways(p) ==
    /\ Me(p).pc = "gtad_ret"
    /\ Me(p).op = "report"
    /\ \E store_ok \in BOOLEAN :
         LET got == get_analytics(cache, Me(p).test, store_ok)
         IN  Set(p, [Me(p) EXCEPT
                 !.cached_analytics = got,
                 !.ai_in_cache = ~IsNone(cache[Me(p).test])
                                   /\ HasAI(Val(cache[Me(p).test])),
                 !.attempt = 1,
                 !.pc = "ai_call"])
    /\ UNCHANGED <<now, results, cache, ai_provider, lastSaved, dirty>>

\* Lines 573-587: read the cache record; reuse its AI analysis or ask the backend.
ReportGet(p) ==
    /\ Me(p).pc = "gtad_ret"
    /\ Me(p).op = "report"
    /\ \E store_ok \in BOOLEAN :
         LET got == get_analytics(cache, Me(p).test, store_ok)
             hit == ~IsNone(got) /\ HasAI(Val(got))
         IN  Set(p, [Me(p) EXCEPT
                 !.cached_analytics = got,
                 !.ai_in_cache = ~IsNone(cache[Me(p).test])
                                   /\ HasAI(Val(cache[Me(p).test])),
                 !.reused = hit,
                 !.ai_analysis = IF hit THEN Val(got).ai_analysis ELSE @,
                 !.attempt = IF hit THEN @ ELSE 1,
                 !.pc = IF hit THEN "rp_render" ELSE "ai_call"])
    /\ UNCHANGED <<now, results, cache, ai_provider, lastSaved, dirty>>

\* Lines 589-617: the fresh analysis is saved; the result of the save is ignored.
ReportSave(p) ==
    /\ Me(p).pc = "rp_save"
    /\ \E store_ok \in BOOLEAN :
         /\ SaveWithAI(p, store_ok)
         /\ Set(p, [Me(p) EXCEPT !.ai_saved = store_ok, !.pc = "rp_render"])
    /\ UNCHANGED <<now, results, ai_provider>>

\* A renderer whose failure removes the record of the test.
ReportRenderRollsBack(p, outcome) ==
    /\ Me(p).pc = "rp_render"
    /\ Set(p, [Me(p) EXCEPT
            !.status = IF outcome = "ok" THEN 200
                       ELSE IF outcome = "no_template" THEN 404 ELSE 500,
            !.error = IF outcome = "ok" THEN "none" ELSE "document",
            !.pc = "done"])
    /\ cache' = IF outcome = "ok" THEN cache ELSE [cache EXCEPT ![Me(p).test] = None]
    /\ UNCHANGED <<now, results, ai_provider, lastSaved, dirty>>

\* Lines 645-695: the document is rendered and returned; a missing template is
\* a 404, any other DocumentGenerationError a 500.
ReportRender(p, outcome) ==
    /\ Me(p).pc = "rp_render"
    /\ Set(p, [Me(p) EXCEPT
            !.status = IF outcome = "ok" THEN 200
                       ELSE IF outcome = "no_template" THEN 404 ELSE 500,
            !.error = IF outcome = "ok" THEN "none" ELSE "document",
            !.pc = "done"])
    /\ UNCHANGED <<now, results, cache, ai_provider, lastSaved, dirty>>

\* -------------------------------------------------------- generate_analysis
\* Lines 768-779: the backend is asked without a look at the cache.
AnalysisGenerate(p) ==
    /\ Me(p).pc = "gtad_ret"
    /\ Me(p).op = "analysis"
    /\ Set(p, [Me(p) EXCEPT
            !.ai_in_cache = ~IsNone(cache[Me(p).test])
                              /\ HasAI(Val(cache[Me(p).test])),
            !.attempt = 1,
            !.pc = "ai_call"])
    /\ UNCHANGED <<now, results, cache, ai_provider, lastSaved, dirty>>

\* cached_analytics = supabase_service.get_analytics(test_id)
AnalysisGet(p) ==
    /\ Me(p).pc = "an_get"
    /\ \E store_ok \in BOOLEAN :
         Set(p, [Me(p) EXCEPT
             !.cached_analytics = get_analytics(cache, Me(p).test, store_ok),
             !.pc = "an_save"])
    /\ UNCHANGED <<now, results, cache, ai_provider, lastSaved, dirty>>

\* Lines 793-833: save with the AI analysis, answer 200 with the analysis.
AnalysisSave(p) ==
    /\ Me(p).pc = "an_save"
    /\ \E store_ok \in BOOLEAN : SaveWithAI(p, store_ok)
    /\ Set(p, [Me(p) EXCEPT !.status = 200, !.pc = "done"])
    /\ UNCHANGED <<now, results, ai_provider>>

StartReport(p, t) ==
    /\ Me(p).pc = "idle"
    /\ Set(p, [IdleProc EXCEPT !.op = "report", !.test = t, !.pc = "gtad_get"])
    /\ UNCHANGED <<now, results, cache, ai_provider, lastSaved, dirty>>

StartAnalysis(p, t) ==
    /\ Me(p).pc = "idle"
    /\ Set(p, [IdleProc EXCEPT !.op = "analysis", !.test = t, !.pc = "gtad_get"])
    /\ UNCHANGED <<now, results, cache, ai_provider, lastSaved, dirty>>

\* A record that already carries an AI analysis.
AIRow == Row(JsonStatistics(calculate_statistics(Students, << >>, TestDef)),
             calculate_question_success(<< >>, TestDef), Some(CachedAnalysis),
             NaiveTs(0), NoTs)

\* The service has been up for a while: the records of the cache are older than
\* the tolerance.
InitAI ==
    /\ now = ToleranceTicks + 1
    /\ results = [t \in Tests |-> << >>]
    /\ cache \in {c \in [Tests -> {None, Some(LegacyRow), Some(AIRow)}] :
                     \A t \in Tests \ ActiveTests : c[t] = Some(LegacyRow)}
    /\ ai_provider \in Providers
    /\ procs = [p \in Procs |-> IdleProc]
    /\ lastSaved = [t \in Tests |-> None]
    /\ dirty = [t \in Tests |-> FALSE]

\* Results arrive while reports are generated.
EnvironmentAI ==
    \E t \in ActiveTests, r \in ResultInputs : InsertResult(t, r, "naive")

\* One worker serving generate-report and generate-analysis requests.
AIWorker(p) ==
    \/ \E t \in ActiveTests : StartReport(p, t)
    \/ \E t \in ActiveTests : StartAnalysis(p, t)
    \/ GetTestAnalysisData(p)
    \/ ReportGet(p)
    \/ \E outcome \in BackendOutcomes : AICall(p, outcome)
    \/ HandleAIError(p)
    \/ ReportSave(p)
    \/ \E outcome \in {"ok", "no_template", "doc_error"} : ReportRender(p, outcome)
    \/ AnalysisGenerate(p)
    \/ AnalysisGet(p)
    \/ AnalysisSave(p)
    \/ Respond(p)

NextAI == EnvironmentAI \/ AIWorker("p1")

\* A request that is running keeps running: the retry loop is not cancelled.
SpecAI == InitAI /\ [][NextAI]_vars /\ WF_vars(AIWorker("p1"))

\* ===================================================================== claims
\* Both timestamps of a validation parse and can be subtracted.
Comparable(ts1, ts2) ==
    /\ ~IsNone(parse_timestamp(ts1))
    /\ ~IsNone(parse_timestamp(ts2))
    /\ ts1.k = ts2.k

Validated(m) == m.check # "none"
Returned(m) == ~IsNone(m.test_data)

\* C1: on a cache hit with cache timestamp T and newest result created_at L,
\* both parseable and comparable, the record is invalidated and the statistics
\* are recomputed exactly when L - T exceeds the one-second tolerance; at a
\* difference of at most one second the cached record is served.
C1_StaleExactlyBeyondTolerance ==
    \A p \in Procs :
        LET m == procs[p]
            beyond == m.lts.t - m.cts.t > tolerance_seconds * TicksPerSecond
        IN  (Validated(m) /\ Comparable(m.lts, m.cts)) =>
              /\ (m.pc = "gtad_invalidate" \/ m.invalidated) <=> beyond
              /\ m.pc = "gtad_hit" => ~beyond
              /\ Returned(m) => (m.test_data[1].from_cache <=> ~beyond)

\* A validation at the smallest difference beyond the tolerance has invalidated
\* the record and returned recomputed statistics.
C1_Witness ==
    \E p \in Procs :
        LET m == procs[p]
        IN  /\ Validated(m) /\ Comparable(m.lts, m.cts)
            /\ m.lts.t - m.cts.t = tolerance_seconds * TicksPerSecond + 1
            /\ m.invalidated /\ Returned(m) /\ ~m.test_data[1].from_cache

\* A validation at exactly the tolerance has served the cached record.
C1_WitnessFresh ==
    \E p \in Procs :
        LET m == procs[p]
        IN  /\ Validated(m) /\ Comparable(m.lts, m.cts)
            /\ m.lts.t - m.cts.t = tolerance_seconds * TicksPerSecond
            /\ ~m.invalidated /\ Returned(m) /\ m.test_data[1].from_cache

\* The validation could not compare: a timestamp is missing or unparsable, the
\* two cannot be subtracted, or the results query failed.
CheckFailed(m) ==
    /\ Validated(m)
    /\ \/ m.check \in {"no_cache_ts", "query_error", "no_result_ts", "compare_error"}
       \/ /\ m.check \notin {"no_results"}
          /\ ~Comparable(m.lts, m.cts)

\* C2: when the freshness check fails (missing cache or result timestamp,
\* unparsable or uncomparable timestamps, failing results query) the cached
\* record is used: it is not invalidated, nothing is recomputed, and the request
\* does not fail because of the check.
C2_FailSafeUsesCache ==
    \A p \in Procs :
        LET m == procs[p]
        IN  CheckFailed(m) =>
              /\ m.pc # "gtad_invalidate" /\ ~m.invalidated
              /\ m.pc \notin {"gtad_miss", "gtad_save"} /\ IsNone(m.computed)
              /\ Returned(m) => m.test_data[1].from_cache
              /\ m.error \in {"none", "records"}

\* A validation whose timestamps could not be subtracted has served the cache.
C2_Witness ==
    \E p \in Procs :
        LET m == procs[p]
        IN  /\ m.check = "compare_error"
            /\ Returned(m) /\ m.test_data[1].from_cache /\ ~m.invalidated

C2_WitnessQuery ==
    \E p \in Procs : procs[p].check = "query_error" /\ Returned(procs[p])

C2_WitnessNoCacheTs ==
    \E p \in Procs : procs[p].check = "no_cache_ts" /\ Returned(procs[p])

C2_WitnessNoResultTs ==
    \E p \in Procs : procs[p].check = "no_result_ts" /\ Returned(procs[p])

C2_WitnessUnparsable ==
    \E p \in Procs : procs[p].lts.k = "bad" /\ Returned(procs[p])

\* C3: when a result was added or updated after the cache record was written,
\* the next get_test_analysis_data invalidates the record and returns
\* recalculated statistics.  Stated for a write more than the tolerance after
\* the record's timestamp and a validation that compared two parseable
\* timestamps.
C3_ModifiedResultsInvalidate ==
    \A p \in Procs :
        LET m == procs[p]
        IN  (m.modified /\ Validated(m) /\ Comparable(m.lts, m.cts)) =>
              /\ m.pc # "gtad_hit"
              /\ Returned(m) => ~m.test_data[1].from_cache

\* The saved statistics and rates as get_analytics returns them now.
Fetched(t) == get_analytics(cache, t, TRUE)

\* C4: after save_analytics(id, S, Q) and no other write, get_analytics(id)
\* returns statistics equal to S and question_success_rates equal to Q.
C4_SaveGetRoundTrip ==
    \A t \in Tests :
        (~IsNone(lastSaved[t]) /\ ~IsNone(Fetched(t))) =>
              /\ Fetched(t)[1].statistics = lastSaved[t][1].statistics
              /\ Fetched(t)[1].question_success_rates = lastSaved[t][1].rates

\* C5: invalidate_analytics is idempotent: with the store reachable it succeeds
\* whether or not a record exists, leaves no record for the test id, leaves the
\* records of the other test ids as they were, and the next fetch of the test id
\* finds no record and recalculates.
C5_InvalidateIdempotent ==
    [][\A p \in Procs :
          /\ InvalidateEndpoint(p, TRUE) =>
                /\ procs'[p].status = 200
                /\ IsNone(cache'[procs[p].test])
                /\ \A t \in Tests \ {procs[p].test} : cache'[t] = cache[t]
          /\ (GtadGet(p) /\ IsNone(cache[procs[p].test])) =>
                procs'[p].pc = "gtad_miss"]_vars

\* An invalidation of a test id that had no record has succeeded.
C5_Witness ==
    \E p \in Procs :
        LET m == procs[p]
        IN  /\ m.op = "invalidate" /\ m.pc = "done"
            /\ m.absent /\ m.status = 200
            /\ IsNone(cache[m.test])
            /\ \E t \in Tests \ {m.test} : ~IsNone(cache[t])

\* C6: failures of the cache store are not surfaced by get_test_analysis_data:
\* a failed read is a miss (the statistics are computed), a failed save still
\* returns the computed statistics.
C6_CacheFailuresNotSurfaced ==
    \A p \in Procs :
        LET m == procs[p]
        IN  /\ m.get_failed =>
                /\ IsNone(m.cached) /\ ~Validated(m)
                /\ m.pc \in {"gtad_miss", "gtad_save", "gtad_ret", "done"}
                /\ Returned(m) => ~m.test_data[1].from_cache
            /\ m.save_failed =>
                /\ Returned(m) /\ m.test_data = m.computed
                /\ m.error = "none" /\ m.status # 500

\* The read of the cache failed, then the save failed, and the statistics were
\* returned all the same.
C6_Witness ==
    \E p \in Procs :
        LET m == procs[p]
        IN  /\ m.get_failed /\ m.save_failed
            /\ m.pc = "gtad_ret" /\ Returned(m) /\ ~m.test_data[1].from_cache

\* The positions of the backend calls in a trace, and the calls up to position i.
CallsOf(trace) == {i \in 1..Len(trace) : trace[i].e = "call"}
CallsUpTo(trace, i) == Cardinality({j \in CallsOf(trace) : j <= i})

\* The record the handler read holds an AI analysis.
ReadHasAI(m) == ~IsNone(m.cached_analytics) /\ HasAI(Val(m.cached_analytics))

\* C7 (as stated): for generate-report and generate-analysis the AI backend is
\* invoked only when the cache record of the test holds no AI analysis.
C7_BackendOnlyWithoutCachedAI ==
    \A p \in Procs :
        LET m == procs[p]
        IN  (m.op \in {"report", "analysis"} /\ m.trace # << >>) => ~m.ai_in_cache

\* C7 (amended): generate-report invokes the AI backend only when its read of
\* the cache returned no AI analysis (no record, a record without one, or a
\* failed read) and reuses a returned AI analysis without a backend call;
\* generate-analysis invokes the backend on every request that got its test
\* data, whatever the cache holds.
C7_ReportReusesAnalysisRegenerates ==
    \A p \in Procs :
        LET m == procs[p]
        IN  /\ m.op = "report" =>
                /\ m.trace # << >> => ~ReadHasAI(m)
                /\ ReadHasAI(m) => m.reused
                /\ m.reused => /\ m.trace = << >>
                               /\ m.ai_analysis = Val(m.cached_analytics).ai_analysis
            /\ (m.op = "analysis" /\ m.pc \in {"an_get", "an_save", "ai_failed"}) =>
                  m.trace # << >>
            /\ (m.op = "analysis" /\ m.pc = "done" /\ m.error # "records") =>
                  m.trace # << >>

\* A report was rendered from the cached AI analysis, without a backend call.
C7_Witness ==
    \E p \in Procs :
        LET m == procs[p]
        IN  /\ m.op = "report" /\ m.pc = "done" /\ m.status = 200
            /\ m.reused /\ m.trace = << >>
            /\ m.ai_analysis = Some(CachedAnalysis)

\* generate-analysis called the backend although an AI analysis was cached.
C7_WitnessAnalysis ==
    \E p \in Procs :
        LET m == procs[p]
        IN  m.op = "analysis" /\ m.ai_in_cache /\ m.trace # << >> /\ m.status = 200

C8_Bounded(m) ==
    LET calls == CallsOf(m.trace)
        failed == \A i \in calls : m.trace[i].kind # "ok"
    IN  /\ Cardinality(calls) <= 3
        /\ \A i \in calls : m.trace[i].kind = "ok" =>
              /\ i = Len(m.trace)
              /\ m.ai_analysis = Some(FreshAnalysis)
              /\ m.pc # "ai_call"
        /\ \A i \in 1..Len(m.trace) : m.trace[i].e = "sleep" =>
              /\ i > 1 /\ m.trace[i - 1].e = "call" /\ m.trace[i - 1].kind # "ok"
              /\ IF i < Len(m.trace) THEN m.trace[i + 1].e = "call"
                 ELSE m.pc = "ai_call"
        /\ (Cardinality(calls) = 3 /\ failed) <=> ~IsNone(m.ai_error)
        /\ ~IsNone(m.ai_error) => m.trace[Len(m.trace)].e = "call"
        /\ m.pc = "ai_failed" => ~IsNone(m.ai_error)

\* C8: the AI retry loop terminates whatever the backend does: at most 3 calls,
\* the first success ends it with no further call, three failures raise the
\* provider's API error, and a delay lies only between two attempts, never
\* after the last.
C8_RetryLoopTerminates ==
    /\ [](\A p \in Procs : C8_Bounded(procs[p]))
    /\ \A p \in Procs : (procs[p].pc = "ai_call") ~> (procs[p].pc # "ai_call")

\* Three failed attempts with a delay between them and none after the last.
C8_Witness ==
    \E p \in Procs :
        LET m == procs[p]
        IN  /\ m.pc = "ai_failed" /\ ~IsNone(m.ai_error)
            /\ Len(m.trace) = 5
            /\ m.trace[2].e = "sleep" /\ m.trace[4].e = "sleep"
            /\ m.trace[5].e = "call"

\* C9 (as stated): a rate-limited failure is surfaced at once, with no further
\* attempt.
C9_RateLimitSurfacedImmediately ==
    \A p \in Procs :
        LET m == procs[p]
        IN  \A i \in CallsOf(m.trace) : m.trace[i].kind = "rate_limit" =>
              i = Len(m.trace) /\ ~IsNone(m.ai_error)

\* The delay the loop takes after failed call i of a trace.
ExpectedDelay(provider, call) ==
    IF provider = "groq" /\ call.kind = "rate_limit" /\ call.d # 0
    THEN (IF call.d > 5 THEN call.d ELSE 5)
    ELSE retry_delay

\* C9 (amended): every failed attempt but the third is retried, a generic one
\* after the fixed delay, a rate-limited one of Groq after the hinted delay
\* (at least 5 seconds) or the fixed delay when there is no hint; only a third
\* attempt that is rate-limited is surfaced by Groq as a rate-limit error with
\* that delay as retry-after; Gemini treats every failure as generic.
C9_RateLimitedRetried ==
    \A p \in Procs :
        LET m == procs[p]
        IN  \A i \in CallsOf(m.trace) : m.trace[i].kind # "ok" =>
              LET limited == ai_provider = "groq" /\ m.trace[i].kind = "rate_limit"
                  delay == ExpectedDelay(ai_provider, m.trace[i])
              IN  IF CallsUpTo(m.trace, i) < max_retries
                  THEN /\ i < Len(m.trace)
                       /\ m.trace[i + 1] = SleepEvent(delay)
                       /\ IsNone(m.ai_error) \/ i + 1 < Len(m.trace)
                  ELSE /\ i = Len(m.trace)
                       /\ ~IsNone(m.ai_error)
                       /\ Val(m.ai_error).is_rate_limit = limited
                       /\ limited => Val(m.ai_error).retry_after = Some(delay)

\* A rate-limited first attempt of Groq with a hint was followed by the hinted
\* delay and a second attempt.
C9_Witness ==
    \E p \in Procs :
        LET m == procs[p]
        IN  /\ ai_provider = "groq"
            /\ Len(m.trace) >= 3
            /\ m.trace[1].e = "call" /\ m.trace[1].kind = "rate_limit"
            /\ m.trace[1].d = 7
            /\ m.trace[2] = SleepEvent(7)
            /\ m.trace[3].e = "call"

\* C10: every AI backend failure reaches the handler as an API error with a
\* rate-limit flag, answered with 429 when the flag is set and with 500 otherwise.
C10_APIErrorCarriesRateLimitFlag ==
    \A p \in Procs :
        LET m == procs[p]
        IN  ~IsNone(m.ai_error) =>
              /\ Val(m.ai_error).has_flag
              /\ m.pc = "done" =>
                    /\ m.error = "ai"
                    /\ m.status = IF Val(m.ai_error).is_rate_limit THEN 429 ELSE 500

section_names ==
    <<"lowest_results_analysis", "highest_results_analysis", "gaps_analysis",
      "results_analysis", "improvement_measures">>

required_sections == {section_names[i] : i \in 1..5}

\* A section text is modelled by its length in characters and by whether it
\* comes from the AI answer or is a placeholder of the service.
\* by names the step that produced it: "regex" (the labelled patterns), "split"
\* (Groq's split at the label lines), "lines" (Gemini's line scanning), "chunk"
\* (Gemini's equal split), "default" (a placeholder).
FromAnswer(by, n) == [text |-> "answer", len |-> n, by |-> by]
DefaultText(n) == [text |-> "default", len |-> n, by |-> "default"]

\* Lengths of the placeholder texts: Groq's for an empty answer and for a
\* missing section, Gemini's default texts.
groq_empty_defaults ==
    [k \in required_sections |->
        DefaultText(CASE k = "lowest_results_analysis" -> 49
                      [] k = "highest_results_analysis" -> 50
                      [] k = "gaps_analysis" -> 38
                      [] k = "results_analysis" -> 40
                      [] OTHER -> 38)]

groq_missing_section(k) ==
    DefaultText(CASE k = "lowest_results_analysis" -> 42
                  [] k = "highest_results_analysis" -> 43
                  [] k = "gaps_analysis" -> 41
                  [] k = "results_analysis" -> 44
                  [] OTHER -> 48)

gemini_default_text(k) ==
    DefaultText(CASE k = "lowest_results_analysis" -> 32
                  [] k = "highest_results_analysis" -> 33
                  [] k = "gaps_analysis" -> 21
                  [] k = "results_analysis" -> 26
                  [] OTHER -> 20)

gemini_defaults == [k \in required_sections |-> gemini_default_text(k)]

\* The regular expressions themselves are not modelled.  An answer text is
\* represented by what they find in it:
\*   blank    the text is empty or white space only;
\*   primary  per section, the length of the stripped capture of the labelled
\*            patterns (0: no pattern matches, or the capture is empty);
\*   parts    the stripped lengths of the pieces that follow the first piece
\*            when the text is split at the label lines (Groq's fallback);
\*   lines    per section, the length of what Gemini's line-by-line fallback
\*            collects under the section's heading (0: nothing);
\*   chunks   per section, the stripped length of the section's slice in
\*            Gemini's split of the whole text into five chunks.
SectionLens == {0, 2, 10, 11}
FallbackLens == {0, 2, 10}

\* Per-section lengths that are z everywhere except x at section a.
OneOff(L) ==
    {[i \in 1..5 |-> IF i = a THEN x ELSE z] : a \in 1..5, x \in L, z \in L}

\* Per-section lengths that are z everywhere except x at a and y at b.
TwoOff(L) ==
    {[i \in 1..5 |-> IF i = a THEN x ELSE IF i = b THEN y ELSE z] :
        a \in 1..5, b \in 1..5, x \in L, y \in L, z \in L}

\* Exactly three sections carry a recognizable label and text.
ThreeLabelled ==
    {[i \in 1..5 |-> IF i \in S THEN 11 ELSE 0] :
        S \in {X \in SUBSET (1..5) : Cardinality(X) = 3}}

GroqTexts ==
    {[blank |-> b, primary |-> pr, parts |-> pa,
      lines |-> [i \in 1..5 |-> 0], chunks |-> [i \in 1..5 |-> 0]] :
        b \in {FALSE}, pr \in TwoOff(SectionLens),
        pa \in {<< >>} \cup {<<x>> : x \in FallbackLens}
                      \cup {<<x, y>> : x \in FallbackLens, y \in FallbackLens}}

GeminiTexts ==
    {[blank |-> b, primary |-> pr, parts |-> << >>, lines |-> li, chunks |-> ch] :
        b \in {FALSE}, pr \in OneOff(SectionLens) \cup ThreeLabelled,
        li \in OneOff(FallbackLens), ch \in OneOff(FallbackLens)}

BlankText ==
    [blank |-> TRUE, primary |-> [i \in 1..5 |-> 0], parts |-> << >>,
     lines |-> [i \in 1..5 |-> 0], chunks |-> [i \in 1..5 |-> 0]]

AITexts(provider) ==
    {BlankText} \cup (IF provider = "groq" THEN GroqTexts ELSE GeminiTexts)

\* GroqService._parse_ai_response: the labelled patterns keep a capture only
\* when it is longer than 10 characters; with fewer than two sections kept the
\* text is split at the label lines and every non-empty piece is assigned, by
\* position and whatever its length, to the section of that position; a
\* section still missing gets the placeholder.
groq_extracted(t) == {i \in 1..5 : t.primary[i] > 10}

groq_split_assigned(t) ==
    IF Cardinality(groq_extracted(t)) < 2
    THEN {i \in 1..5 : i <= Len(t.parts) /\ t.parts[i] > 0}
    ELSE {}

groq_parse_ai_response(t) ==
    IF t.blank THEN groq_empty_defaults
    ELSE [k \in required_sections |->
            LET i == CHOOSE j \in 1..5 : section_names[j] = k
            IN  IF i \in groq_split_assigned(t) THEN FromAnswer("split", t.parts[i])
                ELSE IF i \in groq_extracted(t) THEN FromAnswer("regex", t.primary[i])
                ELSE groq_missing_section(k)]

\* GroqService.generate_analysis returns what the parser returns.
groq_generate_analysis(t) == groq_parse_ai_response(t)

\* GeminiService._fallback_parse: the sections found line by line; with fewer
\* than five of them, the five chunks of the text, an empty chunk being
\* replaced by the default text.
gemini_fallback_parse(t) ==
    LET found == {i \in 1..5 : t.lines[i] > 0}
    IN  IF Cardinality(found) < 5
        THEN [k \in required_sections |->
                LET i == CHOOSE j \in 1..5 : section_names[j] = k
                IN  IF t.chunks[i] > 0 THEN FromAnswer("chunk", t.chunks[i])
                    ELSE gemini_default_text(k)]
        ELSE [k \in required_sections |->
                LET i == CHOOSE j \in 1..5 : section_names[j] = k
                IN  FromAnswer("lines", t.lines[i])]

\* GeminiService._parse_ai_response: every non-empty capture is kept; with
\* fewer than five sections the fallback replaces the result.
gemini_parse_ai_response(t) ==
    LET found == {i \in 1..5 : t.primary[i] > 0}
    IN  IF t.blank THEN gemini_defaults
        ELSE IF Cardinality(found) < 5 THEN gemini_fallback_parse(t)
        ELSE [k \in required_sections |->
                LET i == CHOOSE j \in 1..5 : section_names[j] = k
                IN  FromAnswer("regex", t.primary[i])]

\* GeminiService._validate_sections.
validate_sections(sections) ==
    \A k \in required_sections :
        k \in DOMAIN sections /\ sections[k].len >= 10

\* GeminiService.generate_analysis after the call: when the validation fails,
\* every section that is missing, empty or shorter than 10 characters gets
\* its default text.
gemini_generate_analysis(t) ==
    LET sections == gemini_parse_ai_response(t)
    IN  IF validate_sections(sections) THEN sections
        ELSE [k \in required_sections |->
                IF k \notin DOMAIN sections \/ sections[k].len < 10
                THEN gemini_default_text(k) ELSE sections[k]]

generate_analysis(provider, t) ==
    IF provider = "groq" THEN groq_generate_analysis(t)
    ELSE gemini_generate_analysis(t)

\* A worker that holds the text the backend answered with.
Answered(text) ==
    [IdleProc EXCEPT !.op = "analysis", !.pc = "ai_parse", !.ai_text = Some(text)]

InitParse ==
    /\ now = 0
    /\ results = [t \in Tests |-> << >>]
    /\ cache = [t \in Tests |-> None]
    /\ ai_provider \in Providers
    /\ \E text \in AITexts(ai_provider) :
          procs = [p \in Procs |-> IF p = "p1" THEN Answered(text) ELSE IdleProc]
    /\ lastSaved = [t \in Tests |-> None]
    /\ dirty = [t \in Tests |-> FALSE]

\* The service parses the answer and returns the analysis to its caller.
ParseAIResponse(p) ==
    /\ procs[p].pc = "ai_parse"
    /\ procs' = [procs EXCEPT
          ![p].sections = Some(generate_analysis(ai_provider, Val(procs[p].ai_text))),
          ![p].pc = "ai_parsed"]
    /\ UNCHANGED <<now, results, cache, ai_provider, lastSaved, dirty>>

NextParse == \E p \in Procs : ParseAIResponse(p)

SpecParse == InitParse /\ [][NextParse]_vars

\* C12: the analysis a service returns has exactly the five keys, and every
\* value is at least 10 characters long.
C12_ParserTotalCoverage ==
    \A p \in Procs :
        procs[p].pc = "ai_parsed" =>
            LET sections == Val(procs[p].sections)
            IN  /\ DOMAIN sections = required_sections
                /\ \A k \in required_sections : sections[k].len >= 10

\* Groq returned a section of the answer that is shorter than 10 characters.
C12_ShortSectionReturned ==
    \E p \in Procs :
        /\ procs[p].pc = "ai_parsed" /\ ai_provider = "groq"
        /\ \E k \in required_sections :
              LET v == Val(procs[p].sections)[k]
              IN  v.text = "answer" /\ v.len > 0 /\ v.len < 10

\* The part of C12 that holds: Gemini's analysis always complies, and so does
\* Groq's whenever the split at the label lines assigns nothing.
C12_GeminiCovers ==
    \A p \in Procs :
        (procs[p].pc = "ai_parsed" /\ ai_provider = "gemini") =>
            LET sections == Val(procs[p].sections)
            IN  /\ DOMAIN sections = required_sections
                /\ \A k \in required_sections : sections[k].len >= 10

\* ============================================= the calculations on any input
\* Constructors of the rows the calculations read.
Question(id, points) == [id |-> id, points |-> points]
SubResult(id, points) == [id |-> id, points |-> points]
Result(points, grade, participated, cancelled, question_results) ==
    [points |-> points, grade |-> grade, participated |-> participated,
     cancelled |-> cancelled, question_results |-> question_results]
Test(questions, total_questions) ==
    [questions |-> questions, total_questions |-> total_questions]

\* _calculate_question_success raises when it calls get() on a question or on
\* a sub-result that is not a mapping.  With no question or no participating
\* result it returns before reading any of them.  Every question is read when
\* the id map is built; the first five sub-results of the first participating
\* result are read for the log; for each ordinal the sub-results of each
\* participating result are read in order until one matches by id.
QuestionSuccessRaises(rs, test) ==
    LET questions == test.questions
        valid == SelectSeq(rs, IsParticipated)
        Matches(qr, i) ==
            /\ ~IsNone(IdOf(qr))
            /\ Val(IdOf(qr)) \in possible_ids(questions[i].id, i)
    IN  /\ Len(questions) > 0
        /\ Len(valid) > 0
        /\ \/ \E i \in 1..Len(questions) : ~IsMapping(questions[i])
           \/ \E j \in 1..Len(valid[1].question_results) :
                 j <= 5 /\ ~IsMapping(valid[1].question_results[j])
           \/ \E r \in 1..Len(valid) : \E i \in 1..Len(questions) :
                 \E j \in 1..Len(valid[r].question_results) :
                    /\ ~IsMapping(valid[r].question_results[j])
                    /\ \A k \in 1..(j - 1) :
                          ~Matches(valid[r].question_results[k], i)

\* _calculate_statistics raises when float() is applied to the points of a
\* result that are present and not numeric, and when the question calculation
\* it calls raises.
StatisticsRaises(students, rs, test) ==
    \/ \E j \in 1..Len(rs) :
          ~IsNone(rs[j].points) /\ ~IsNumeric(rs[j].points)
    \/ QuestionSuccessRaises(rs, test)

Raised == [raised |-> TRUE]
Returns(v) == [raised |-> FALSE, value |-> v]

\* The calls, with the exception as an outcome.
call_calculate_question_success(rs, test) ==
    IF QuestionSuccessRaises(rs, test) THEN Raised
    ELSE Returns(calculate_question_success(rs, test))

\* The statistics map carries the success rates merged into it.
call_calculate_statistics(students, rs, test) ==
    IF StatisticsRaises(students, rs, test) THEN Raised
    ELSE Returns([statistics |-> calculate_statistics(students, rs, test),
                  question_stats |-> calculate_question_success(rs, test)])

\* ---- the inputs
\* Results that differ in points, grade and participation, without sub-results.
GradeInputs == {None, NonNumeric, Some(150), Some(200), Some(450), Some(600)}
GradedResults ==
    {Result(pts, g, part, FALSE, << >>) :
        pts \in {None, Some(1)}, g \in GradeInputs, part \in BOOLEAN}

\* Sub-result lists: unanswered, full marks of a 2-point question, more than
\* the maximum, negative and non-numeric points, an id of another ordinal, an
\* element that is not a mapping (first, and behind an id match of ordinal 1).
SubResultLists ==
    {<< >>,
     <<SubResult(None, Some(2))>>,
     <<SubResult(None, Some(3))>>,
     <<SubResult(None, Some(0 - 1))>>,
     <<SubResult(None, NonNumeric)>>,
     <<SubResult(None, None)>>,
     <<SubResult(Some(Key("q", 2)), Some(1))>>,
     <<NotAMapping>>,
     <<SubResult(Some(Key("q", 1)), Some(1)), NotAMapping>>}

AnsweredResults ==
    {Result(pts, Some(300), pc[1], pc[2], qrs) :
        pts \in {Some(1), NonNumeric},
        pc \in {<<TRUE, FALSE>>, <<FALSE, FALSE>>, <<TRUE, TRUE>>},
        qrs \in SubResultLists}

FullMarks == Result(Some(2), Some(600), TRUE, FALSE, <<SubResult(None, Some(2))>>)
Unanswered == Result(Some(0), Some(200), TRUE, FALSE, << >>)

MaxResultList == 2
ClassSize == 10

ListsOver(S) ==
    UNION {[1..n -> S] : n \in 0..MaxResultList}

\* Question sequences: none, one 2-point question, questions with a missing,
\* a negative and a non-numeric point value, a question that is not a mapping.
QuestionLists ==
    {<< >>,
     <<Question(None, Some(2))>>,
     <<Question(None, None), Question(Some(Key("id", 2)), Some(0 - 1))>>,
     <<Question(None, NonNumeric)>>,
     <<NotAMapping>>}

DeclaredTotals == {0, 1, 3}

TestInputs == {Test(qs, n) : qs \in QuestionLists, n \in DeclaredTotals}

CalcInputs ==
    {[students |-> Students, results |-> rs, test |-> Test(<<Question(None, Some(2))>>, 1)] :
        rs \in ListsOver(GradedResults)}
    \cup {[students |-> Students, results |-> rs, test |-> t] :
        rs \in ListsOver(AnsweredResults), t \in TestInputs}
    \cup {[students |-> Students, results |-> rs, test |-> Test(<<Question(None, Some(2))>>, 1)] :
        rs \in [1..ClassSize -> {FullMarks, Unanswered}]}

Calling(op, args) ==
    [IdleProc EXCEPT !.op = op, !.pc = "calc", !.args = Some(args)]

InitCalc ==
    /\ now = 0
    /\ results = [t \in Tests |-> << >>]
    /\ cache = [t \in Tests |-> None]
    /\ ai_provider = "groq"
    /\ \E op \in {"statistics", "question_success"} : \E args \in CalcInputs :
          procs = [p \in Procs |-> IF p = "p1" THEN Calling(op, args) ELSE IdleProc]
    /\ lastSaved = [t \in Tests |-> None]
    /\ dirty = [t \in Tests |-> FALSE]

CallCalculateStatistics(p) ==
    /\ procs[p].pc = "calc" /\ procs[p].op = "statistics"
    /\ LET a == Val(procs[p].args)
       IN  procs' = [procs EXCEPT
              ![p].returned = Some(call_calculate_statistics(a.students, a.results, a.test)),
              ![p].pc = "calc_done"]
    /\ UNCHANGED <<now, results, cache, ai_provider, lastSaved, dirty>>

CallCalculateQuestionSuccess(p) ==
    /\ procs[p].pc = "calc" /\ procs[p].op = "question_success"
    /\ LET a == Val(procs[p].args)
       IN  procs' = [procs EXCEPT
              ![p].returned = Some(call_calculate_question_success(a.results, a.test)),
              ![p].pc = "calc_done"]
    /\ UNCHANGED <<now, results, cache, ai_provider, lastSaved, dirty>>

NextCalc ==
    \E p \in Procs : CallCalculateStatistics(p) \/ CallCalculateQuestionSuccess(p)

SpecCalc == InitCalc /\ [][NextCalc]_vars

\* ---- helpers of the claims about the calculations
StatisticsDone(p) ==
    /\ procs[p].pc = "calc_done" /\ procs[p].op = "statistics"
    /\ ~Val(procs[p].returned).raised

QuestionSuccessDone(p) ==
    /\ procs[p].pc = "calc_done" /\ procs[p].op = "question_success"
    /\ ~Val(procs[p].returned).raised

BucketSum(statistics) ==
    LET d == statistics.grade_distribution
    IN  d[IntKey(2)] + d[IntKey(3)] + d[IntKey(4)] + d[IntKey(5)] + d[IntKey(6)]

\* The results counted in participated_count.
Counted(p) == SelectSeq(Val(procs[p].args).results, IsValidParticipated)

GradeBelowTwo(r) == ~IsNone(r.grade) /\ IsNumeric(r.grade) /\ Val(r.grade) < 200
GradeAtLeastTwo(r) == ~IsNone(r.grade) /\ IsNumeric(r.grade) /\ Val(r.grade) >= 200

\* C13: the bucket counts sum to at most participated_count, and to exactly
\* participated_count if and only if no counted result has a grade below 2.00.
C13_BucketsSumIffNoGradeBelowTwo ==
    \A p \in Procs :
        StatisticsDone(p) =>
            LET st == Val(procs[p].returned).value.statistics
                c == Counted(p)
            IN  /\ BucketSum(st) <= st.participated_count
                /\ (BucketSum(st) = st.participated_count) <=>
                      ~\E j \in 1..Len(c) : GradeBelowTwo(c[j])

\* C13 as amended: the bucket counts sum to at most participated_count, and to
\* exactly participated_count if and only if every counted result has a
\* numeric grade of at least 2.00.
C13_BucketsSumIffAllGradesCounted ==
    \A p \in Procs :
        StatisticsDone(p) =>
            LET st == Val(procs[p].returned).value.statistics
                c == Counted(p)
            IN  /\ BucketSum(st) <= st.participated_count
                /\ (BucketSum(st) = st.participated_count) <=>
                      \A j \in 1..Len(c) : GradeAtLeastTwo(c[j])

\* Two results are counted, one with grade 6.00 and one with no grade: the
\* buckets hold one of them.
C13_Witness ==
    \E p \in Procs :
        /\ StatisticsDone(p)
        /\ LET st == Val(procs[p].returned).value.statistics
               c == Counted(p)
           IN  /\ st.participated_count = 2 /\ BucketSum(st) = 1
               /\ \E j \in 1..2 : IsNone(c[j].grade)
               /\ \E j \in 1..2 : c[j].grade = Some(600)

\* The rates a finished call of either calculation returned.
RatesReturned(p) ==
    IF procs[p].op = "statistics"
    THEN Val(procs[p].returned).value.question_stats
    ELSE Val(procs[p].returned).value

CalcDone(p) == StatisticsDone(p) \/ QuestionSuccessDone(p)

\* C14: every success rate produced is an integer between 0 and 100.
C14_RatesWithinPercentRange ==
    \A p \in Procs :
        CalcDone(p) =>
            \A i \in DOMAIN RatesReturned(p) : RatesReturned(p)[i] \in 0..100

\* A result earned 3 points on a 2-point question: the rate is 100.
C14_Witness ==
    \E p \in Procs :
        /\ QuestionSuccessDone(p)
        /\ LET a == Val(procs[p].args)
           IN  /\ a.test.questions = <<Question(None, Some(2))>>
               /\ a.results = <<Result(Some(1), Some(300), TRUE, FALSE,
                                       <<SubResult(None, Some(3))>>)>>
               /\ RatesReturned(p) = <<100>>

\* A result earned -1 points: it counts as 0 and the rate is 0.
C14_WitnessNegative ==
    \E p \in Procs :
        /\ QuestionSuccessDone(p)
        /\ LET a == Val(procs[p].args)
           IN  /\ a.test.questions = <<Question(None, Some(2))>>
               /\ a.results = <<Result(Some(1), Some(300), TRUE, FALSE,
                                       <<SubResult(None, Some(0 - 1))>>)>>
               /\ RatesReturned(p) = <<0>>

\* The effective question count of a test.
EffectiveCount(test) ==
    IF Len(test.questions) > 0 THEN Len(test.questions) ELSE test.total_questions

\* C15: _calculate_question_success returns an entry for every ordinal from 1
\* to the effective question count and for no other.
C15_EntryForEveryOrdinal ==
    \A p \in Procs :
        QuestionSuccessDone(p) =>
            DOMAIN RatesReturned(p) = 1..EffectiveCount(Val(procs[p].args).test)

\* The part of C15 that holds: with a non-empty question sequence the entries
\* are those of the ordinals 1..len(questions); with an empty one there is none.
C15_EntriesOfQuestionSequence ==
    \A p \in Procs :
        QuestionSuccessDone(p) =>
            DOMAIN RatesReturned(p) = 1..Len(Val(procs[p].args).test.questions)

\* ---- C16
\* The participating results of a call, the points a result earned on ordinal
\* i (0 with no sub-result for it), and the maximum of the question.
Participating(p) == SelectSeq(Val(procs[p].args).results, IsParticipated)

EarnedBy(r, test, i) ==
    LET qr == FindQuestionResult(r.question_results, test.questions, i)
    IN  IF IsNone(qr) THEN 0
        ELSE IF IsNone(Val(qr).points) \/ ~IsNumeric(Val(qr).points) THEN 0
        ELSE IF Val(Val(qr).points) < 0 THEN 0 ELSE Val(Val(qr).points)

Answers(r, test, i) ==
    ~IsNone(FindQuestionResult(r.question_results, test.questions, i))

\* C16: the rate of an ordinal is round(100 * points earned / (max points *
\* participating results)) capped at 100; six of ten results earning 2 of 2
\* points and four without a sub-result give 60; no matching sub-result gives 0.
C16_RateOverAllParticipating ==
    \A p \in Procs :
        QuestionSuccessDone(p) =>
            LET a == Val(procs[p].args)
                v == Participating(p)
                rates == RatesReturned(p)
            IN  \A i \in DOMAIN rates :
                  LET earned == SeqSum([j \in 1..Len(v) |-> EarnedBy(v[j], a.test, i)])
                      max_points == QuestionMaxPoints(a.test.questions, i)
                      exact == RoundHalfEven(100 * earned, max_points * Len(v))
                  IN  /\ Len(v) > 0 =>
                            rates[i] = IF exact > 100 THEN 100 ELSE exact
                      /\ (\A j \in 1..Len(v) : ~Answers(v[j], a.test, i)) =>
                            rates[i] = 0
                      /\ ( /\ Len(v) = 10 /\ max_points = 2
                           /\ Cardinality({j \in 1..10 : v[j] = FullMarks}) = 6
                           /\ Cardinality({j \in 1..10 : v[j] = Unanswered}) = 4 ) =>
                            rates[i] = 60

\* Ten results, six with 2 of 2 points and four unanswered: 60.
C16_Witness ==
    \E p \in Procs :
        /\ QuestionSuccessDone(p)
        /\ LET v == Participating(p)
           IN  /\ Len(v) = 10
               /\ Cardinality({j \in 1..10 : v[j] = FullMarks}) = 6
               /\ Cardinality({j \in 1..10 : v[j] = Unanswered}) = 4
               /\ RatesReturned(p) = <<60>>

\* C17: the calculations never raise, whatever the shape of their inputs.
C17_CalculationsNeverRaise ==
    \A p \in Procs :
        procs[p].pc = "calc_done" => ~Val(procs[p].returned).raised

\* The part of C17 that holds: a missing or non-numeric grade, missing or
\* non-numeric points of a sub-result or of a question, and missing points of
\* a result do not make the calculations raise.
C17_RaisesOnlyOnPointsOrNonMapping ==
    \A p \in Procs :
        (procs[p].pc = "calc_done" /\ Val(procs[p].returned).raised) =>
            LET a == Val(procs[p].args)
            IN  \/ \E j \in 1..Len(a.results) : a.results[j].points = NonNumeric
                \/ \E j \in 1..Len(a.test.questions) : ~IsMapping(a.test.questions[j])
                \/ \E j \in 1..Len(a.results) :
                      \E k \in 1..Len(a.results[j].question_results) :
                          ~IsMapping(a.results[j].question_results[k])

\* ===================================== the rates handed to the renderer
\* A value stored under q{i}_success: the string "{n}%", the string "{n}"
\* (digits without the sign), the number n, a string that is neither (such as
\* "abc"), JSON null, the empty string.
Pct(n) == [k |-> "pct", n |-> n]
Digits(n) == [k |-> "digits", n |-> n]
Number(n) == [k |-> "number", n |-> n]
Text == [k |-> "text", n |-> 0]
Null == [k |-> "null", n |-> 0]
EmptyStr == [k |-> "empty", n |-> 0]

\* f"{success_rate}%" of every rate of a fresh calculation.
Formatted(rates) == [i \in DOMAIN rates |-> Pct(rates[i])]

\* The number of rows of the template's question table.
template_total_questions == 19

Max(a, b) == IF a >= b THEN a ELSE b

\* get_test_analysis_data: the q{i}_success entries of test_data.  From the
\* cache record they are taken as they are and the missing ones of
\* 1..total_questions are added as "0%"; a fresh calculation's are its own.
test_data_rates(from_cache, cached_rates, rs, test) ==
    IF from_cache
    THEN FillWith(cached_rates, final_total_questions(test), Pct(0))
    ELSE Formatted(calculate_question_success(rs, test))

\* DocumentService._build_context: a value for every ordinal up to the larger
\* of the question count and the 19 rows of the template; "0%" for a missing,
\* null or empty one; a number becomes its digits followed by "%"; a string
\* is kept as it is.
build_context(rates, test) ==
    LET questions_count == Len(test.questions)
        test_data_total == final_total_questions(test)
        total_questions == IF test_data_total > 0 \/ questions_count > 0
                           THEN Max(test_data_total, questions_count) ELSE 0
        max_questions == Max(total_questions, template_total_questions)
    IN  [i \in 1..max_questions |->
            LET value == IF i \in DOMAIN rates /\ rates[i] # Null
                         THEN rates[i] ELSE Pct(0)
            IN  IF value = EmptyStr THEN Pct(0)
                ELSE IF value.k = "number" THEN Pct(value.n)
                ELSE value]

\* generate_test_analysis_document before rendering: the context's
\* total_questions is 19, and for the ordinals 1..19 a missing, null or empty
\* value becomes "0%" and digits without the sign get it.
normalize_context(context) ==
    [i \in (DOMAIN context) \cup (1..template_total_questions) |->
        IF i > template_total_questions THEN context[i]
        ELSE IF i \notin DOMAIN context THEN Pct(0)
        ELSE IF context[i] \in {Null, EmptyStr} THEN Pct(0)
        ELSE IF context[i].k \in {"digits", "number"} THEN Pct(context[i].n)
        ELSE context[i]]

\* ---- the inputs
StoredValues == {Pct(50), Digits(50), Number(50), Text, Null, EmptyStr}
StoredOrdinals == {1, 2, 20}

\* The question_success_rates of a cache record: any of the stored ordinals
\* absent or holding any stored value.
CachedRates ==
    UNION {[D -> StoredValues] : D \in SUBSET StoredOrdinals}

Questions(n) == [i \in 1..n |-> Question(None, Some(2))]

\* Tests with no question (declared none, declared 3), with 2 and with 20.
RenderedTests ==
    {Test(Questions(0), 0), Test(Questions(0), 3), Test(Questions(2), 1),
     Test(Questions(20), 20)}

ReportInputs ==
    {[from_cache |-> TRUE, cached_rates |-> c, results |-> << >>, test |-> t] :
        c \in CachedRates, t \in RenderedTests}
    \cup {[from_cache |-> FALSE, cached_rates |-> << >>, results |-> rs, test |-> t] :
        rs \in ListsOver({FullMarks, Unanswered}), t \in RenderedTests}

InitContext ==
    /\ now = 0
    /\ results = [t \in Tests |-> << >>]
    /\ cache = [t \in Tests |-> None]
    /\ ai_provider = "groq"
    /\ \E args \in ReportInputs :
          procs = [p \in Procs |-> IF p = "p1" THEN Calling("report", args) ELSE IdleProc]
    /\ lastSaved = [t \in Tests |-> None]
    /\ dirty = [t \in Tests |-> FALSE]

\* get_test_analysis_data returns test_data.
ReturnTestData(p) ==
    /\ procs[p].pc = "calc" /\ procs[p].op = "report"
    /\ LET a == Val(procs[p].args)
       IN  procs' = [procs EXCEPT
              ![p].test_data = Some(test_data_rates(a.from_cache, a.cached_rates,
                                                    a.results, a.test)),
              ![p].pc = "context"]
    /\ UNCHANGED <<now, results, cache, ai_provider, lastSaved, dirty>>

\* The document service builds the context and is about to render it.
BuildContext(p) ==
    /\ procs[p].pc = "context"
    /\ procs' = [procs EXCEPT
          ![p].returned = Some(normalize_context(
                build_context(Val(procs[p].test_data), Val(procs[p].args).test))),
          ![p].pc = "render"]
    /\ UNCHANGED <<now, results, cache, ai_provider, lastSaved, dirty>>

NextContext == \E p \in Procs : ReturnTestData(p) \/ BuildContext(p)

SpecContext == InitContext /\ [][NextContext]_vars

\* C18: the context handed to the renderer has, for every i from 1 to the
\* test's total question count, q{i}_success holding a string that ends in "%".
C18_ContextRatesArePercentStrings ==
    \A p \in Procs :
        procs[p].pc = "render" =>
            LET context == Val(procs[p].returned)
                N == final_total_questions(Val(procs[p].args).test)
            IN  \A i \in 1..N : i \in DOMAIN context /\ context[i].k = "pct"

\* The part of C18 that holds: every key of 1..N is in the context, and its
\* value ends in "%" on the fresh path, and on the cache path unless the
\* record holds a string without digits, or digits beyond the 19th ordinal.
C18_KeysPresentAndFreshPercent ==
    \A p \in Procs :
        procs[p].pc = "render" =>
            LET context == Val(procs[p].returned)
                a == Val(procs[p].args)
                N == final_total_questions(a.test)
            IN  \A i \in 1..N :
                    /\ i \in DOMAIN context
                    /\ context[i].k # "pct" =>
                          /\ a.from_cache /\ i \in DOMAIN a.cached_rates
                          /\ \/ a.cached_rates[i] = Text
                             \/ /\ a.cached_rates[i].k = "digits"
                                /\ i > template_total_questions

\* ============================================== concurrent recalculations
\* Two workers serve recalculate requests for the same test while results
\* arrive; every step of a request interleaves with the other worker's.
InitRace ==
    /\ now = ToleranceTicks + 1
    /\ results = [t \in Tests |-> << >>]
    /\ cache \in {c \in [Tests -> {None, Some(LegacyRow)}] :
                     \A t \in Tests \ ActiveTests : c[t] = Some(LegacyRow)}
    /\ ai_provider = "groq"
    /\ procs = [p \in Procs |-> IdleProc]
    /\ lastSaved = [t \in Tests |-> None]
    /\ dirty = [t \in Tests |-> FALSE]

EnvironmentRace ==
    \E t \in ActiveTests, r \in ResultInputs : InsertResult(t, r, "naive")

RecalcWorker(p) ==
    \/ \E t \in ActiveTests, force \in BOOLEAN : StartRecalculate(p, t, force)
    \/ RecalcInvalidate(p)
    \/ GetTestAnalysisData(p)
    \/ RecalcSave(p)
    \/ Respond(p)

NextRace == EnvironmentRace \/ RecalcWorker("p1") \/ RecalcWorker("p2")

SpecRace == InitRace /\ [][NextRace]_vars

Quiescent == \A p \in Procs : procs[p].pc \in {"idle", "done"}

\* C19: the store holds at most one record per test id, and once every
\* request has finished the record of a test holds the statistics and the
\* rates of the last save that completed, both of that one save.
C19_LastWriterWins ==
    \A t \in Tests :
        /\ Len(cache[t]) <= 1
        /\ (Quiescent /\ ~IsNone(lastSaved[t])) =>
              /\ ~IsNone(cache[t])
              /\ Val(cache[t]).statistics = JsonStatistics(Val(lastSaved[t]).statistics)
              /\ Val(cache[t]).question_success_rates = Val(lastSaved[t]).rates

\* Both workers have finished a recalculation of the same test with different
\* statistics, and the record holds those of one of them.
C19_Witness ==
    /\ \A p \in Procs :
          /\ procs[p].pc = "done" /\ procs[p].op = "recalc" /\ procs[p].test = "t1"
          /\ ~IsNone(procs[p].test_data)
    /\ Val(procs["p1"].test_data).statistics # Val(procs["p2"].test_data).statistics
    /\ Val(procs["p1"].test_data).rates # Val(procs["p2"].test_data).rates
    /\ ~IsNone(lastSaved["t1"]) /\ ~IsNone(cache["t1"])
    /\ Val(lastSaved["t1"]).rates = Val(procs["p1"].test_data).rates
    /\ Val(cache["t1"]).question_success_rates = Val(procs["p1"].test_data).rates
    /\ Val(cache["t1"]).statistics =
          JsonStatistics(Val(procs["p1"].test_data).statistics)

\* C20: a recalculation with force_recalculate = True returns and saves
\* statistics computed from the current students and results, never the
\* statistics of the cache record.
C20_ForceAlwaysRecalculates ==
    \A p \in Procs :
        ( /\ procs[p].op = "recalc" /\ procs[p].force
          /\ procs[p].pc \in {"gtad_ret", "done"}
          /\ ~IsNone(procs[p].test_data) ) =>
            ~Val(procs[p].test_data).from_cache

\* A forced recalculation answered 200 with the statistics of the cache record.
C20_ForcedServedFromCache ==
    \E p \in Procs :
        /\ procs[p].op = "recalc" /\ procs[p].force
        /\ procs[p].pc = "done" /\ procs[p].status = 200
        /\ Val(procs[p].test_data).from_cache

\* ================================================= cleanup of old documents
\* The output directory: the generated documents (*.docx) that exist, each
\* with its modification time.  Times are in hours.
Documents == {"d1", "d2", "d3"}
MaxHour == 3

OutputDirs == UNION {[D -> 0..MaxHour] : D \in SUBSET Documents}

\* DocumentService.cleanup_old_documents: for every document the modification
\* time is read and compared with the cutoff (which only decides whether the
\* removal is logged), then the document is unlinked and counted; a document
\* whose unlink raises is skipped.  Returns the directory afterwards and the
\* count.
cleanup_old_documents(output_dir, current_time, max_age_hours, unlink_fails) ==
    LET cutoff_time == current_time - max_age_hours
        logged == {d \in DOMAIN output_dir : output_dir[d] < cutoff_time}
        removed == (DOMAIN output_dir) \ unlink_fails
    IN  [output_dir |-> [d \in (DOMAIN output_dir) \ removed |-> output_dir[d]],
         removed_count |-> Cardinality(removed),
         logged |-> logged]

InitCleanup ==
    /\ now \in MaxHour..(MaxHour + 1)
    /\ results = [t \in Tests |-> << >>]
    /\ cache = [t \in Tests |-> None]
    /\ ai_provider = "groq"
    /\ \E dir \in OutputDirs : \E max_age_hours \in 1..2 :
          procs = [p \in Procs |->
                     IF p = "p1"
                     THEN Calling("cleanup", [output_dir |-> dir,
                                              max_age_hours |-> max_age_hours])
                     ELSE IdleProc]
    /\ lastSaved = [t \in Tests |-> None]
    /\ dirty = [t \in Tests |-> FALSE]

\* The cleanup endpoint runs the cleanup and answers with the count.
CleanupOldDocuments(p) ==
    /\ procs[p].pc = "calc" /\ procs[p].op = "cleanup"
    /\ LET a == Val(procs[p].args)
       IN  \E unlink_fails \in SUBSET (DOMAIN a.output_dir) :
              procs' = [procs EXCEPT
                 ![p].returned = Some([unlink_fails |-> unlink_fails] @@
                      cleanup_old_documents(a.output_dir, now, a.max_age_hours,
                                            unlink_fails)),
                 ![p].status = 200,
                 ![p].pc = "done"]
    /\ UNCHANGED <<now, results, cache, ai_provider, lastSaved, dirty>>

NextCleanup == \E p \in Procs : CleanupOldDocuments(p)

SpecCleanup == InitCleanup /\ [][NextCleanup]_vars

\* C21: when no removal fails, the cleanup removes exactly the documents whose
\* modification time is older than max_age_hours, keeps the others, and
\* returns the number it removed.
C21_RemovesExactlyOldDocuments ==
    \A p \in Procs :
        ( /\ procs[p].op = "cleanup" /\ procs[p].pc = "done"
          /\ Val(procs[p].returned).unlink_fails = {} ) =>
            LET a == Val(procs[p].args)
                r == Val(procs[p].returned)
                old == {d \in DOMAIN a.output_dir :
                           a.output_dir[d] < now - a.max_age_hours}
            IN  /\ DOMAIN r.output_dir = (DOMAIN a.output_dir) \ old
                /\ \A d \in DOMAIN r.output_dir : r.output_dir[d] = a.output_dir[d]
                /\ r.removed_count = Cardinality(old)

\* The part of C21 that holds: the count returned is the number of documents
\* removed, and a document that stays keeps its modification time.
C21_CountsWhatItRemoves ==
    \A p \in Procs :
        (procs[p].op = "cleanup" /\ procs[p].pc = "done") =>
            LET a == Val(procs[p].args)
                r == Val(procs[p].returned)
            IN  /\ DOMAIN r.output_dir \subseteq DOMAIN a.output_dir
                /\ \A d \in DOMAIN r.output_dir : r.output_dir[d] = a.output_dir[d]
                /\ r.removed_count =
                      Cardinality((DOMAIN a.output_dir) \ (DOMAIN r.output_dir))

\* C22: on a cache hit that the validation lets through, get_test_analysis_data
\* returns the statistics and the rates of the record it read, computes
\* nothing, and leaves the cache store and the results as they are.
C22_FreshHitLeavesStore ==
    [][\A p \in Procs :
          GtadHit(p) =>
            /\ cache' = cache
            /\ results' = results
            /\ procs'[p].computed = None
            /\ procs'[p].pc = "gtad_ret" =>
                 LET row == Val(procs[p].cached)
                     td == Val(procs'[p].test_data)
                 IN  /\ td.from_cache
                     /\ td.statistics = row.statistics
                     /\ \A i \in DOMAIN row.question_success_rates :
                           td.rates[i] = row.question_success_rates[i]]_vars

\* A record judged fresh was returned while the test has a result, and the
\* store still holds the record that was read.
C22_Witness ==
    \E p \in Procs :
        LET m == procs[p]
        IN  /\ m.pc = "gtad_ret" /\ m.check = "fresh"
            /\ ~IsNone(m.test_data) /\ Val(m.test_data).from_cache
            /\ Len(results[m.test]) > 0
            /\ cache[m.test] = m.cached
            /\ IsNone(m.computed)

\* C23: a record judged stale is invalidated before anything is fetched or
\* computed, the statistics are computed before they are saved, and when the
\* call returns after the store accepted the delete and the save, the record
\* holds the statistics and the rates that were returned and nothing of the
\* old record.
C23_StaleHitReplacesRecord ==
    \A p \in Procs :
        LET m == procs[p]
        IN  /\ m.invalidated => m.check = "stale" /\ IsNone(m.cached)
            /\ (m.invalidated /\ m.pc \in {"gtad_invalidate", "gtad_miss"}) =>
                  IsNone(m.computed)
            /\ m.pc = "gtad_invalidate" => ~m.invalidated /\ IsNone(m.computed)
            /\ (m.invalidated /\ m.pc = "gtad_save") => ~IsNone(m.computed)
            /\ ( /\ m.invalidated /\ m.pc = "gtad_ret"
                 /\ ~m.invalidate_failed /\ ~m.save_failed ) =>
                  LET td == Val(m.test_data)
                  IN  /\ ~td.from_cache
                      /\ ~IsNone(cache[m.test])
                      /\ Val(cache[m.test]).statistics = JsonStatistics(td.statistics)
                      /\ Val(cache[m.test]).question_success_rates = td.rates
                      /\ IsNone(Val(cache[m.test]).ai_analysis)
                      /\ Val(cache[m.test]).calculated_at = NoTs
                      /\ Val(cache[m.test]).updated_at.k = "naive"

\* A stale record was replaced: the call returned the statistics of one
\* participating result and the record holds them.
C23_Witness ==
    \E p \in Procs :
        LET m == procs[p]
        IN  /\ m.invalidated /\ m.pc = "gtad_ret" /\ m.check = "stale"
            /\ ~m.invalidate_failed /\ ~m.save_failed
            /\ Val(m.test_data).statistics.participated_count = 1
            /\ ~IsNone(cache[m.test])
            /\ Val(cache[m.test]).statistics.participated_count = 1
\* ================================================ the order of the strategies
\* The sections the labelled patterns of the running service keep.
LabelledFound(t) ==
    IF ai_provider = "groq" THEN groq_extracted(t)
    ELSE {i \in 1..5 : t.primary[i] > 0}

\* C24: when the labelled patterns yield fewer than 5 sections the result of
\* the later strategies replaces theirs (line scanning, then the equal split),
\* and an answer with exactly 3 recognizable labelled sections is returned
\* with fewer than 2 sections that are placeholders.
C24_EscalatesUntilFiveSections ==
    \A p \in Procs :
        (procs[p].pc = "ai_parsed" /\ ~Val(procs[p].ai_text).blank) =>
            LET t == Val(procs[p].ai_text)
                sections == Val(procs[p].sections)
                placeholders == {k \in required_sections : sections[k].by = "default"}
            IN  /\ Cardinality(LabelledFound(t)) < 5 =>
                      \A k \in required_sections :
                          sections[k].by \in {"split", "lines", "chunk", "default"}
                /\ ( /\ Cardinality(LabelledFound(t)) = 3
                      /\ \A i \in 1..5 : t.primary[i] \in {0, 11} ) =>
                      Cardinality(placeholders) < 2

\* ======================================================= the equal split
\* A text is represented by its length and by the lengths of its leading and
\* trailing white space; the characters in between are not white space at
\* either end of any slice.
AIText(total_chars, leading, trailing) ==
    [total_chars |-> total_chars, leading |-> leading, trailing |-> trailing]

Min(a, b) == IF a <= b THEN a ELSE b

\* ai_text[a:b] for non-negative a and b: the positions from..to-1.
Slice(total_chars, a, b) ==
    LET from == Min(a, total_chars)
    IN  [from |-> from, to |-> Max(from, Min(b, total_chars))]

\* len(ai_text[a:b].strip())
stripped_len(text, slice) ==
    LET lo == Max(slice.from, text.leading)
        hi == Min(slice.to, text.total_chars - text.trailing)
    IN  IF hi > lo THEN hi - lo ELSE 0

\* Variant: the chunk size has no floor.
chunk_size_no_floor(total_chars) == total_chars \div 5

\* chunk_size = max(total_chars // 5, 100)
chunk_size(total_chars) == Max(total_chars \div 5, 100)

\* The five slices of the emergency fallback; the last one runs to the end.
chunk_slices(total_chars) ==
    LET cs == chunk_size(total_chars)
    IN  [i \in 1..5 |->
            IF i < 5 THEN Slice(total_chars, (i - 1) * cs, i * cs)
            ELSE Slice(total_chars, 4 * cs, total_chars)]

\* What the parser's steps find in a text without any heading: the labelled
\* patterns and the line scanning find nothing, the chunks are the slices.
unlabelled_text(text) ==
    [blank |-> text.leading + text.trailing >= text.total_chars,
     primary |-> [i \in 1..5 |-> 0], parts |-> << >>,
     lines |-> [i \in 1..5 |-> 0],
     chunks |-> [i \in 1..5 |->
                    stripped_len(text, chunk_slices(text.total_chars)[i])]]

TextLengths == {1, 7, 99, 100, 101, 250, 399, 400, 401, 499, 500, 501, 504, 505, 1000}
WhiteSpaceLengths == {0, 1, 4, 100, 120}

SplitInputs ==
    {AIText(n, l, t) : n \in TextLengths, l \in WhiteSpaceLengths,
                       t \in WhiteSpaceLengths} \ 
    {x \in {AIText(n, l, t) : n \in TextLengths, l \in WhiteSpaceLengths,
                              t \in WhiteSpaceLengths} :
        x.leading + x.trailing >= x.total_chars}

InitSplit ==
    /\ now = 0
    /\ results = [t \in Tests |-> << >>]
    /\ cache = [t \in Tests |-> None]
    /\ ai_provider = "gemini"
    /\ \E text \in SplitInputs :
          procs = [p \in Procs |->
                     IF p = "p1" THEN Calling("fallback_parse", text)
                     ELSE IdleProc]
    /\ lastSaved = [t \in Tests |-> None]
    /\ dirty = [t \in Tests |-> FALSE]

\* _fallback_parse on a text in which the line scanning finds no section.
FallbackParse(p) ==
    /\ procs[p].pc = "calc" /\ procs[p].op = "fallback_parse"
    /\ LET text == Val(procs[p].args)
       IN  procs' = [procs EXCEPT
              ![p].returned = Some(chunk_slices(text.total_chars)),
              ![p].sections = Some(gemini_fallback_parse(unlabelled_text(text))),
              ![p].pc = "done"]
    /\ UNCHANGED <<now, results, cache, ai_provider, lastSaved, dirty>>

NextSplit == \E p \in Procs : FallbackParse(p)

SpecSplit == InitSplit /\ [][NextSplit]_vars

SplitDone(p) == procs[p].pc = "done" /\ procs[p].op = "fallback_parse"

\* The slices cover the text from its first to its last character, each one
\* starting where the one before ends.
CoversText(slices, total_chars) ==
    /\ slices[1].from = 0
    /\ \A i \in 1..4 : slices[i + 1].from = slices[i].to
    /\ slices[5].to = total_chars

\* Every section holds its chunk, stripped, or its default text when the
\* stripped chunk is empty.
ChunksAssigned(text, slices, sections) ==
    \A i \in 1..5 :
        LET n == stripped_len(text, slices[i])
            v == sections[section_names[i]]
        IN  IF n > 0 THEN v = FromAnswer("chunk", n)
            ELSE v = gemini_default_text(section_names[i])

Repeat(r, n) == [i \in 1..n |-> r]

GradedAs(grade) == Result(Some(1), grade, TRUE, FALSE, << >>)
NotParticipated == Result(Some(1), Some(600), FALSE, FALSE, << >>)

MaxPassed == 11
MaxBucketTwo == 4

PassRateInputs ==
    {[students |-> Students,
      results |-> Repeat(GradedAs(Some(600)), a) \o Repeat(GradedAs(Some(200)), b)
                  \o Repeat(GradedAs(Some(150)), c) \o Repeat(GradedAs(None), d)
                  \o Repeat(NotParticipated, e),
      test |-> Test(<<Question(None, Some(2))>>, 1)] :
        a \in 0..MaxPassed, b \in 0..MaxBucketTwo, c \in 0..1, d \in 0..1,
        e \in 0..1}

InitPassRate ==
    /\ now = 0
    /\ results = [t \in Tests |-> << >>]
    /\ cache = [t \in Tests |-> None]
    /\ ai_provider = "groq"
    /\ \E args \in PassRateInputs :
          procs = [p \in Procs |->
                     IF p = "p1" THEN Calling("statistics", args) ELSE IdleProc]
    /\ lastSaved = [t \in Tests |-> None]
    /\ dirty = [t \in Tests |-> FALSE]

NextPassRate == \E p \in Procs : CallCalculateStatistics(p)

SpecPassRate == InitPassRate /\ [][NextPassRate]_vars

\* C26: the pass rate is (participated_count - bucket 2) / participated_count
\* * 100 rounded to 1 decimal, whatever the grades of the counted results, and
\* 0 when nobody participated.
C26_PassRateOverParticipated ==
    \A p \in Procs :
        StatisticsDone(p) =>
            LET st == Val(procs[p].returned).value.statistics
                n == st.participated_count
            IN  st.pass_rate =
                  IF n > 0
                  THEN RoundHalfEven(1000 * (n - st.grade_distribution[IntKey(2)]), n)
                  ELSE 0

\* C26, amended: the pass rate is (sum of the five buckets - bucket 2) /
\* participated_count * 100 rounded to 1 decimal, and 0 when nobody
\* participated; it is the rate of C26 exactly when no counted result has a
\* grade below 2.00 or no numeric grade.
C26_PassRateOverBuckets ==
    \A p \in Procs :
        StatisticsDone(p) =>
            LET st == Val(procs[p].returned).value.statistics
                n == st.participated_count
                bucket2 == st.grade_distribution[IntKey(2)]
                counted == Counted(p)
                graded == \A j \in 1..Len(counted) : GradeAtLeastTwo(counted[j])
            IN  /\ n = Len(counted)
                /\ st.pass_rate =
                     IF n > 0
                     THEN RoundHalfEven(1000 * (BucketSum(st) - bucket2), n)
                     ELSE 0
                /\ graded => st.pass_rate = Percentage(n - bucket2, n)
                /\ (n > 0 /\ ~graded) => st.pass_rate < Percentage(n - bucket2, n)

\* 15 counted results, 4 of them in bucket 2 and 11 above: 73.3.
C26_Witness ==
    \E p \in Procs :
        /\ StatisticsDone(p)
        /\ LET st == Val(procs[p].returned).value.statistics
           IN  /\ st.participated_count = 15
               /\ st.grade_distribution[IntKey(2)] = 4
               /\ BucketSum(st) = 15
               /\ st.pass_rate = 733

\* ================================================== matching by position
\* One participating result with up to two sub-results, on a test of two
\* 2-point questions; the ids are absent, the integer 0, the id of a question,
\* an alias of an ordinal, or an id of no question.  The first sub-result
\* carries 1 point and the second 2.
PositionIds ==
    {None, Some(IntZero), Some(Key("id", 7)), Some(Key("q", 1)),
     Some(Key("q", 2)), Some(Key("id", 8))}

PositionQuestionIds == {None, Some(IntZero), Some(Key("id", 7))}

PositionInputs ==
    {[students |-> Students,
      results |-> <<Result(Some(1), Some(300), TRUE, FALSE, qrs)>>,
      test |-> Test(<<Question(a, Some(2)), Question(b, Some(2))>>, 2)] :
        a \in PositionQuestionIds, b \in PositionQuestionIds,
        qrs \in {<< >>} \cup {<<SubResult(x, Some(1))>> : x \in PositionIds}
                \cup {<<SubResult(x, Some(1)), SubResult(y, Some(2))>> :
                        x \in PositionIds, y \in PositionIds}}

InitPosition ==
    /\ now = 0
    /\ results = [t \in Tests |-> << >>]
    /\ cache = [t \in Tests |-> None]
    /\ ai_provider = "groq"
    /\ \E args \in PositionInputs :
          procs = [p \in Procs |->
                     IF p = "p1" THEN Calling("question_success", args)
                     ELSE IdleProc]
    /\ lastSaved = [t \in Tests |-> None]
    /\ dirty = [t \in Tests |-> FALSE]

NextPosition == \E p \in Procs : CallCalculateQuestionSuccess(p)

SpecPosition == InitPosition /\ [][NextPosition]_vars

\* The accepted keys of ordinal i as the claim names them: the question's own
\* id and the aliases of the ordinal.
AcceptedKeys(questions, i) ==
    (IF IsNone(questions[i].id) THEN {} ELSE {Val(questions[i].id)}) \cup Aliases(i)

\* No sub-result of the list carries an accepted key of ordinal i.
NotFoundById(question_results, questions, i) ==
    \A j \in 1..Len(question_results) :
        \/ IsNone(question_results[j].id)
        \/ Val(question_results[j].id) \notin AcceptedKeys(questions, i)

\* C27: the only participating result has no sub-result with an accepted key
\* of ordinal i, and the sub-result at position i-1 carries an id; then that
\* sub-result is not counted for ordinal i, whose rate is therefore 0.
C27_PositionCountsOnlyWithoutId ==
    \A p \in Procs :
        QuestionSuccessDone(p) =>
            LET a == Val(procs[p].args)
                v == Participating(p)
                rates == RatesReturned(p)
            IN  \A i \in DOMAIN rates :
                  ( /\ Len(v) = 1
                    /\ i <= Len(v[1].question_results)
                    /\ NotFoundById(v[1].question_results, a.test.questions, i)
                    /\ ~IsNone(v[1].question_results[i].id) ) =>
                        rates[i] = 0

\* The part of C27 that holds: the same with an id that Python takes for true.
C27_PositionSkipsTrueId ==
    \A p \in Procs :
        QuestionSuccessDone(p) =>
            LET a == Val(procs[p].args)
                v == Participating(p)
                rates == RatesReturned(p)
            IN  \A i \in DOMAIN rates :
                  ( /\ Len(v) = 1
                    /\ i <= Len(v[1].question_results)
                    /\ NotFoundById(v[1].question_results, a.test.questions, i)
                    /\ ~IsNone(IdOf(v[1].question_results[i])) ) =>
                        rates[i] = 0

\* ============================================ what a cache record was built on
\* Result row j of test t was created at or before the instant U.
CreatedBy(t, j, U) ==
    /\ results[t][j].created_at.k \in {"naive", "aware"}
    /\ results[t][j].created_at.t <= U.t

\* The statistics are those of a result set that holds the rows 1..n of the
\* test, each with the content it had at some time.
BuiltOnRows(statistics, t, n) ==
    \E contents \in [1..n -> ResultInputs] :
        statistics = JsonStatistics(calculate_statistics(Students, contents, TestDef))

\* C28: a cache record with updated_at = U holds statistics computed from a
\* result set that contains every result of the test created at or before U.
C28_RecordCoversEarlierResults ==
    \A t \in Tests :
        (~IsNone(cache[t]) /\ Val(cache[t]).updated_at.k = "naive") =>
            \E n \in 0..Len(results[t]) :
                /\ \A j \in 1..Len(results[t]) :
                      CreatedBy(t, j, Val(cache[t]).updated_at) => j <= n
                /\ BuiltOnRows(Val(cache[t]).statistics, t, n)

\* ================================= the analysis and the statistics of a record
\* C29: a cache record that holds an AI analysis holds the statistics the
\* analysis was generated for.  Stated for the analysis the store starts
\* with, which was generated for the statistics of its record: no record
\* carries it next to other statistics.
C29_AnalysisOfItsStatistics ==
    \A t \in Tests :
        (~IsNone(cache[t]) /\ Val(cache[t]).ai_analysis = Some(CachedAnalysis)) =>
            /\ Val(cache[t]).statistics = Val(Some(AIRow)).statistics
            /\ Val(cache[t]).question_success_rates = AIRow.question_success_rates

\* ==================================================== hit path and miss path
\* A call answered from the record that the last save of a miss path wrote.
HitAfterMiss(p) ==
    /\ procs[p].pc = "gtad_ret"
    /\ ~IsNone(procs[p].test_data)
    /\ Val(procs[p].test_data).from_cache
    /\ ~IsNone(lastSaved[procs[p].test])
    /\ IntKey(2) \in DOMAIN Val(lastSaved[procs[p].test]).statistics.grade_distribution
    /\ cache[procs[p].test] = procs[p].cached
    /\ ~IsNone(procs[p].cached)
    /\ Val(procs[p].cached).statistics =
          JsonStatistics(Val(lastSaved[procs[p].test]).statistics)
    /\ Val(procs[p].cached).question_success_rates =
          Val(lastSaved[procs[p].test]).rates

\* C30: the data of the hit path equals the data of the miss path that
\* populated the cache: same statistics, with the same grade distribution and
\* grade percentage under every grade, and same success rate for every ordinal.
C30_HitEqualsMiss ==
    \A p \in Procs :
        HitAfterMiss(p) =>
            LET hit == Val(procs[p].test_data)
                miss == Val(lastSaved[procs[p].test])
            IN  /\ hit.rates = miss.rates
                /\ hit.statistics.total_students = miss.statistics.total_students
                /\ hit.statistics.participated_count = miss.statistics.participated_count
                /\ hit.statistics.good_grades_count = miss.statistics.good_grades_count
                /\ hit.statistics.pass_rate = miss.statistics.pass_rate
                /\ \A g \in Grades :
                      /\ IntKey(g) \in DOMAIN hit.statistics.grade_distribution
                      /\ IntKey(g) \in DOMAIN hit.statistics.grade_percentages
                      /\ hit.statistics.grade_distribution[IntKey(g)] =
                            miss.statistics.grade_distribution[IntKey(g)]
                      /\ hit.statistics.grade_percentages[IntKey(g)] =
                            miss.statistics.grade_percentages[IntKey(g)]

\* The part of C30 that holds: the two agree on the success rates and on every
\* scalar statistic, and the hit path holds under the string "g" what the
\* miss path holds under the integer g.
C30_HitEqualsMissUnderStringKeys ==
    \A p \in Procs :
        HitAfterMiss(p) =>
            LET hit == Val(procs[p].test_data)
                miss == Val(lastSaved[procs[p].test])
            IN  /\ hit.rates = miss.rates
                /\ hit.statistics = JsonStatistics(miss.statistics)
                /\ \A g \in Grades :
                      /\ hit.statistics.grade_distribution[StrKey(g)] =
                            miss.statistics.grade_distribution[IntKey(g)]
                      /\ hit.statistics.grade_percentages[StrKey(g)] =
                            miss.statistics.grade_percentages[IntKey(g)]

====
